---- MODULE Spec2Model ----
(***************************************************************************)
(* Gesture arbitration engine of listeners/swipe.ts: the SwipeMachine      *)
(* session record, the window-level listeners it attaches, the browser     *)
(* objects its handlers touch (class lists, transforms, pointer capture,   *)
(* timers, animation frames) and the drag / render collaborators.          *)
(*                                                                         *)
(* Every handler of the source is an operator from a world record to a     *)
(* world record, so that a handler which calls another one (every handler  *)
(* ends in _forceReset) is the composition of the two.  The session's     *)
(* coordinates are integer CSS pixels, an event's are in half pixels; the  *)
(* rendered translation is kept in quarter pixels because the rubber band  *)
(* multiplies by 0.25.                                                     *)
(***************************************************************************)
EXTENDS Integers, Sequences, FiniteSets, TLC

\* ------------------------------------------------------------- constants
DIRECTION_LOCKED_THRESHOLD == 5
HOLD_TOLERANCE_PX == 15
\* SWIPE_ACTION_THRESHOLD comes from ../constants, which is not in src/.
ACTION_THRESHOLD == 60
LONG_PRESS_DELAY == 500
DEFAULT_ACTION_WIDTH == 60
\* resistanceFactor 0.25 = 1 / RESISTANCE_DIV ; all rendered values are in
\* units of 1 / RESISTANCE_DIV pixel.
RESISTANCE_DIV == 4
maxVisualOvershoot == 20
HAPTIC_GRAIN == 8
LIMIT_PULSE_MS == 80

\* ---------------------------------------------------------------- bounds
NumRows == 2
MaxPointerId == 1
MaxClickTimers == 1

Rows == 1 .. NumRows
NULL == 0
PointerIds == 1 .. MaxPointerId
NoPointer == -1

\* clientX / clientY of an event are doubles: they are carried in units of
\* 1 / SubPixel px (half pixels), the session's coordinates in whole px.
SubPixel == 2

\* Inputs.  One touch origin, in px; the offsets, in px, sit on both sides
\* of every threshold of the code (5, 15, 60, 60 + 80).  A pointer event
\* lies half a pixel to the right of the whole-pixel position (x is
\* fractional, y is whole); a touch sample lies on it.
DownXs == {200}
DownYs == {300}
MoveOffsets == { <<-61, 0>>, <<-60, 0>>, <<0, 0>>, <<5, 0>>, <<6, 6>>, <<6, 0>>, <<40, 0>>,
                 <<60, 0>>, <<61, 0>>, <<141, 0>> }
TouchOffsets == { <<9, 9>>, <<9, 12>>, <<12, 14>>, <<0, 15>>, <<0, -16>>, <<16, 0>> }
Buttons == {0, 2}
\* Values of the CSS variable --swipe-action-width as parseInt returns them
\* (0 stands for NaN / unset: both are falsy).
CssActionWidths == {0, 60}

WindowListeners == {"pointermove", "pointerup", "pointercancel", "blur", "touchmove"}
CardClasses == {"IS_SWIPING", "IS_OPEN_LEFT", "IS_OPEN_RIGHT", "is-pressing", "is-charging"}
Phases == {"IDLE", "DETECTING", "SWIPING", "LOCKED_OUT"}

VARIABLES
    SwipeMachine,        \* the module-level session record
    listeners,           \* window-level listeners of this module now attached
    classList,           \* row -> set of CSS classes on the card
    bodyActive,          \* document.body has 'is-interaction-active'
    transform,           \* row -> <<>> (cleared) or <<visualX in quarter px>>
    capture,             \* pointer id -> row holding its capture, or NULL
    dragSession,         \* the drag collaborator: active flag and last hand-off
    handoffs,            \* startDragSession calls since the last accepted pointerdown
    timeouts,            \* handles of pending setTimeout(_triggerDrag)
    intervals,           \* handles of running setInterval (limit pulse)
    frames,              \* handles of pending requestAnimationFrame(_renderFrame)
    rerenders,           \* requestAnimationFrame(renderApp) calls of the last step
    renderQueued,        \* a requestAnimationFrame(renderApp) callback is pending
    clickBlockers,       \* blockClick closures attached to window 'click'
    clickTimers,         \* pending timeouts that remove a blockClick closure
    haptics,             \* pulses emitted by the last step, in order
    prevented,           \* the last touchmove had preventDefault() called
    clickStopped,        \* the last click was stopped by a blockClick closure
    closedRows,          \* rows whose open panel the last pointerdown closed
    lastEvent            \* the event the last step dispatched

vars == << SwipeMachine, listeners, classList, bodyActive, transform, capture,
           dragSession, handoffs, timeouts, intervals, frames, rerenders,
           renderQueued, clickBlockers, clickTimers, haptics, prevented,
           clickStopped, closedRows, lastEvent >>

\* The world a handler runs in; the outputs of a step start empty.
\* habitListStructure is state.uiDirtyState.habitListStructure as the step
\* finds it: the flag belongs to the render collaborator, which sets and
\* clears it on its own.
World(habitListStructure) ==
    [ sm |-> SwipeMachine, listeners |-> listeners, classList |-> classList,
      bodyActive |-> bodyActive, transform |-> transform, capture |-> capture,
      drag |-> dragSession, handoffs |-> handoffs, timeouts |-> timeouts,
      intervals |-> intervals, frames |-> frames, rerenders |-> 0,
      renderQueued |-> renderQueued,
      dirty |-> habitListStructure, clickBlockers |-> clickBlockers,
      clickTimers |-> clickTimers, haptics |-> << >>, prevented |-> FALSE,
      clickStopped |-> FALSE, closedRows |-> {} ]

Becomes(w, event) ==
    /\ SwipeMachine' = w.sm
    /\ listeners' = w.listeners
    /\ classList' = w.classList
    /\ bodyActive' = w.bodyActive
    /\ transform' = w.transform
    /\ capture' = w.capture
    /\ dragSession' = w.drag
    /\ handoffs' = w.handoffs
    /\ timeouts' = w.timeouts
    /\ intervals' = w.intervals
    /\ frames' = w.frames
    /\ rerenders' = w.rerenders
    /\ renderQueued' = w.renderQueued
    /\ clickBlockers' = w.clickBlockers
    /\ clickTimers' = w.clickTimers
    /\ haptics' = w.haptics
    /\ prevented' = w.prevented
    /\ clickStopped' = w.clickStopped
    /\ closedRows' = w.closedRows
    /\ lastEvent' = event

\* ------------------------------------------------------------ core utils
Abs(n) == IF n < 0 THEN -n ELSE n
Min(a, b) == IF a < b THEN a ELSE b

\* Faulty variant of ToInt32: the double is rounded to the nearest integer,
\* halves upwards, where | 0 drops the fraction.
ToInt32_nearest(v) ==
    IF v >= 0 THEN (2 * v + SubPixel) \div (2 * SubPixel)
    ELSE -((2 * (-v) + SubPixel) \div (2 * SubPixel))

\* x | 0 : conversion of a double to a signed 32-bit integer.  v is the
\* double in units of 1 / SubPixel; the fraction is dropped, towards zero.
\* Every value handled is far inside the int32 range, where nothing wraps.
ToInt32(v) == IF v >= 0 THEN v \div SubPixel ELSE -((-v) \div SubPixel)

\* parseInt(...) || 60
updateLayoutMetrics(css) == IF css # 0 THEN css ELSE DEFAULT_ACTION_WIDTH

\* Browser handle allocation: a handle never equals one still pending or one
\* the session goes on holding (possibly stale) in another field; the field
\* the new handle is assigned to is overwritten, so its old value is no
\* longer held.
FreshHandle(used) ==
    CHOOSE h \in 1 .. (Cardinality(used) + 1) :
        h \notin used /\ \A k \in 1 .. (h - 1) : k \in used

NewTimerId(w, held) == FreshHandle((w.timeouts \cup w.intervals \cup {held}) \ {0})

NewFrameId(w) == FreshHandle((w.frames \cup {w.sm.rafId}) \ {0})

triggerHaptic(w, kind) == [w EXCEPT !.haptics = Append(@, kind)]

isDragActive(w) == w.drag.active

hasPointerCapture(w, card, pid) == pid \in PointerIds /\ w.capture[pid] = card

\* Faulty variant of _stopLimitVibration: the handle is forgotten but the
\* interval is not cleared.
_stopLimitVibration_forgetsInterval(w) ==
    IF w.sm.limitVibrationTimer # 0
    THEN [w EXCEPT !.sm.limitVibrationTimer = 0,
                   !.haptics = Append(@, "vibrate0")]
    ELSE w

_stopLimitVibration(w) ==
    IF w.sm.limitVibrationTimer # 0
    THEN [w EXCEPT !.intervals = @ \ {w.sm.limitVibrationTimer},
                   !.sm.limitVibrationTimer = 0,
                   !.haptics = Append(@, "vibrate0")]
    ELSE w

\* ---------------------------------------------------- lifecycle management
\* Faulty variant of _cleanListeners: the touch guard is left on the window.
_cleanListeners_keepsGuard(w) ==
    [w EXCEPT !.listeners = @ \ {"pointermove", "pointerup", "pointercancel", "blur"}]

_cleanListeners(w) == [w EXCEPT !.listeners = @ \ WindowListeners]

\* Faulty variant of _forceReset: the long-press timeout is left pending.
_forceReset_keepsTimer(w) ==
    LET w1 == [w EXCEPT !.frames = IF w.sm.rafId # 0 THEN @ \ {w.sm.rafId} ELSE @]
        w2 == _stopLimitVibration(w1)
        card == w.sm.card
        content == w.sm.content
        pointerId == w.sm.pointerId
        w3 == IF card # NULL
              THEN [w2 EXCEPT
                      !.classList[card] = @ \ {"IS_SWIPING", "is-pressing", "is-charging"},
                      !.capture = IF pointerId # NoPointer /\ hasPointerCapture(w2, card, pointerId)
                                  THEN [@ EXCEPT ![pointerId] = NULL] ELSE @]
              ELSE w2
        w4 == IF content # NULL
              THEN [w3 EXCEPT !.transform[content] = << >>]
              ELSE w3
        w5 == [w4 EXCEPT !.bodyActive = FALSE,
                         !.sm.state = "IDLE",
                         !.sm.card = NULL,
                         !.sm.content = NULL,
                         !.sm.initialEvent = << >>,
                         !.sm.pointerId = NoPointer,
                         !.sm.rafId = 0]
        w6 == IF w5.dirty /\ ~isDragActive(w5)
              THEN [w5 EXCEPT !.rerenders = @ + 1, !.renderQueued = TRUE]
              ELSE w5
    IN  _cleanListeners(w6)

\* Faulty variant of _forceReset: the pending frame request is not cancelled.
_forceReset_keepsFrame(w) ==
    LET w1 == [w EXCEPT !.timeouts = IF w.sm.longPressTimer # 0
                                     THEN @ \ {w.sm.longPressTimer} ELSE @]
        w2 == _stopLimitVibration(w1)
        card == w.sm.card
        content == w.sm.content
        pointerId == w.sm.pointerId
        w3 == IF card # NULL
              THEN [w2 EXCEPT
                      !.classList[card] = @ \ {"IS_SWIPING", "is-pressing", "is-charging"},
                      !.capture = IF pointerId # NoPointer /\ hasPointerCapture(w2, card, pointerId)
                                  THEN [@ EXCEPT ![pointerId] = NULL] ELSE @]
              ELSE w2
        w4 == IF content # NULL
              THEN [w3 EXCEPT !.transform[content] = << >>]
              ELSE w3
        w5 == [w4 EXCEPT !.bodyActive = FALSE,
                         !.sm.state = "IDLE",
                         !.sm.card = NULL,
                         !.sm.content = NULL,
                         !.sm.initialEvent = << >>,
                         !.sm.pointerId = NoPointer,
                         !.sm.rafId = 0]
        w6 == IF w5.dirty /\ ~isDragActive(w5)
              THEN [w5 EXCEPT !.rerenders = @ + 1, !.renderQueued = TRUE]
              ELSE w5
    IN  _cleanListeners(w6)

_forceReset(w) ==
    LET w1 == [w EXCEPT !.frames = IF w.sm.rafId # 0 THEN @ \ {w.sm.rafId} ELSE @,
                        !.timeouts = IF w.sm.longPressTimer # 0
                                     THEN @ \ {w.sm.longPressTimer} ELSE @]
        w2 == _stopLimitVibration(w1)
        card == w.sm.card
        content == w.sm.content
        pointerId == w.sm.pointerId
        w3 == IF card # NULL
              THEN [w2 EXCEPT
                      !.classList[card] = @ \ {"IS_SWIPING", "is-pressing", "is-charging"},
                      !.capture = IF pointerId # NoPointer /\ hasPointerCapture(w2, card, pointerId)
                                  THEN [@ EXCEPT ![pointerId] = NULL] ELSE @]
              ELSE w2
        w4 == IF content # NULL
              THEN [w3 EXCEPT !.transform[content] = << >>]
              ELSE w3
        w5 == [w4 EXCEPT !.bodyActive = FALSE,
                         !.sm.state = "IDLE",
                         !.sm.card = NULL,
                         !.sm.content = NULL,
                         !.sm.initialEvent = << >>,
                         !.sm.pointerId = NoPointer,
                         !.sm.rafId = 0]
        w6 == IF w5.dirty /\ ~isDragActive(w5)
              THEN [w5 EXCEPT !.rerenders = @ + 1, !.renderQueued = TRUE]
              ELSE w5
    IN  _cleanListeners(w6)

\* ------------------------------------------------------------------ Init
Init ==
    /\ \E css \in CssActionWidths :
         SwipeMachine =
           [ state |-> "IDLE", card |-> NULL, content |-> NULL,
             startX |-> 0, startY |-> 0, currentX |-> 0, currentY |-> 0,
             pointerId |-> NoPointer, rafId |-> 0,
             wasOpenLeft |-> FALSE, wasOpenRight |-> FALSE,
             lastFeedbackStep |-> 0, limitVibrationTimer |-> 0,
             longPressTimer |-> 0, initialEvent |-> << >>,
             actionWidth |-> updateLayoutMetrics(css) ]
    /\ listeners = {}
    /\ classList = [r \in Rows |-> {}]
    /\ bodyActive = FALSE
    /\ transform = [r \in Rows |-> << >>]
    /\ capture = [p \in PointerIds |-> NULL]
    /\ dragSession = [active |-> FALSE, card |-> NULL, content |-> NULL, event |-> << >>]
    /\ handoffs = 0
    /\ timeouts = {}
    /\ intervals = {}
    /\ frames = {}
    /\ rerenders = 0
    /\ renderQueued = FALSE
    /\ clickBlockers = 0
    /\ clickTimers = 0
    /\ haptics = << >>
    /\ prevented = FALSE
    /\ clickStopped = FALSE
    /\ closedRows = {}
    /\ lastEvent = "setup"

\* ---------------------------------------------------------- touch guard
\* Faulty variant of _activeTouchGuard: the tolerance is taken per axis, as
\* the earlier revisions did, not on the straight-line distance.
_activeTouchGuard_perAxis(w, e) ==
    IF w.sm.state # "DETECTING" THEN w
    ELSE IF ~e.hasTouch THEN w
    ELSE
      LET dx == e.clientX - SubPixel * w.sm.startX
          dy == e.clientY - SubPixel * w.sm.startY
          dist2 == dx * dx + dy * dy
          tolerance == SubPixel * HOLD_TOLERANCE_PX
      IN  IF Abs(dx) < tolerance /\ Abs(dy) < tolerance
          THEN IF e.cancelable THEN [w EXCEPT !.prevented = TRUE] ELSE w
          ELSE IF Abs(dy) > Abs(dx) /\ Abs(dy) > tolerance
               THEN IF w.sm.longPressTimer # 0
                    THEN [w EXCEPT
                            !.timeouts = @ \ {w.sm.longPressTimer},
                            !.sm.longPressTimer = 0,
                            !.classList = IF w.sm.card # NULL
                                          THEN [@ EXCEPT ![w.sm.card] = @ \ {"is-charging"}]
                                          ELSE @]
                    ELSE w
               ELSE w

\* Faulty variant of _activeTouchGuard: the long press is cancelled but the
\* row goes on showing the charging feedback.
_activeTouchGuard_keepsCharging(w, e) ==
    IF w.sm.state # "DETECTING" THEN w
    ELSE IF ~e.hasTouch THEN w
    ELSE
      LET dx == e.clientX - SubPixel * w.sm.startX
          dy == e.clientY - SubPixel * w.sm.startY
          dist2 == dx * dx + dy * dy
          tolerance == SubPixel * HOLD_TOLERANCE_PX
      IN  IF dist2 < tolerance * tolerance
          THEN IF e.cancelable THEN [w EXCEPT !.prevented = TRUE] ELSE w
          ELSE IF Abs(dy) > Abs(dx) /\ Abs(dy) > tolerance
               THEN IF w.sm.longPressTimer # 0
                    THEN [w EXCEPT
                            !.timeouts = @ \ {w.sm.longPressTimer},
                            !.sm.longPressTimer = 0]
                    ELSE w
               ELSE w

\* e = [hasTouch, clientX, clientY, cancelable]
_activeTouchGuard(w, e) ==
    IF w.sm.state # "DETECTING" THEN w
    ELSE IF ~e.hasTouch THEN w
    ELSE
      LET dx == e.clientX - SubPixel * w.sm.startX
          dy == e.clientY - SubPixel * w.sm.startY
          dist2 == dx * dx + dy * dy
          tolerance == SubPixel * HOLD_TOLERANCE_PX
      IN  IF dist2 < tolerance * tolerance
          THEN IF e.cancelable THEN [w EXCEPT !.prevented = TRUE] ELSE w
          ELSE IF Abs(dy) > Abs(dx) /\ Abs(dy) > tolerance
               THEN IF w.sm.longPressTimer # 0
                    THEN [w EXCEPT
                            !.timeouts = @ \ {w.sm.longPressTimer},
                            !.sm.longPressTimer = 0,
                            !.classList = IF w.sm.card # NULL
                                          THEN [@ EXCEPT ![w.sm.card] = @ \ {"is-charging"}]
                                          ELSE @]
                    ELSE w
               ELSE w

\* --------------------------------------------------------- visual engine
\* Faulty variant of VisualX: the overshoot is scaled but has no ceiling.
VisualX_noCeiling(tx, actionPoint) ==
    IF Abs(tx) >= actionPoint
    THEN LET excess == Abs(tx) - actionPoint
             sign == IF tx > 0 THEN 1 ELSE -1
         IN  (actionPoint * RESISTANCE_DIV + excess) * sign
    ELSE tx * RESISTANCE_DIV

\* The translation, in quarter pixels, that _renderFrame computes from tx.
VisualX(tx, actionPoint) ==
    IF Abs(tx) >= actionPoint
    THEN LET excess == Abs(tx) - actionPoint
             visualOvershoot == Min(excess, maxVisualOvershoot * RESISTANCE_DIV)
             sign == IF tx > 0 THEN 1 ELSE -1
         IN  (actionPoint * RESISTANCE_DIV + visualOvershoot) * sign
    ELSE tx * RESISTANCE_DIV

\* Faulty variant of FrameDelta: the displacement is taken from the origin
\* alone, without the reveal offset.
FrameDelta_noBaseline(sm) == ToInt32(SubPixel * (sm.currentX - sm.startX))

\* tx of _renderFrame: displacement from the origin plus the reveal offset
FrameDelta(sm) ==
    ToInt32(SubPixel * (sm.currentX - sm.startX))
      + (IF sm.wasOpenLeft THEN sm.actionWidth ELSE 0)
      - (IF sm.wasOpenRight THEN sm.actionWidth ELSE 0)

\* Faulty variant of _renderFrame: the heavy pulse is emitted by every frame
\* rendered at the limit, not only by the one that starts the pulse timer.
_renderFrame_heavyEveryFrame(w) ==
    IF w.sm.content = NULL THEN [w EXCEPT !.sm.rafId = 0]
    ELSE IF w.sm.state = "SWIPING"
    THEN
      LET tx == FrameDelta(w.sm)
          absX == Abs(tx)
          actionPoint == w.sm.actionWidth
          w1 == IF absX >= actionPoint
                THEN IF w.sm.limitVibrationTimer = 0
                     THEN LET h == NewTimerId(w, w.sm.longPressTimer)
                          IN  [triggerHaptic(w, "heavy") EXCEPT
                                 !.sm.limitVibrationTimer = h,
                                 !.intervals = @ \cup {h}]
                     ELSE triggerHaptic(w, "heavy")
                ELSE LET v == _stopLimitVibration(w)
                         currentStep == absX \div HAPTIC_GRAIN
                     IN  IF currentStep # v.sm.lastFeedbackStep
                         THEN [(IF currentStep > v.sm.lastFeedbackStep
                                THEN IF 10 * absX > 6 * actionPoint
                                     THEN triggerHaptic(v, "light")
                                     ELSE triggerHaptic(v, "selection")
                                ELSE v)
                               EXCEPT !.sm.lastFeedbackStep = currentStep]
                         ELSE v
      IN  [w1 EXCEPT !.transform[w.sm.content] = << VisualX(tx, actionPoint) >>,
                     !.sm.rafId = 0]
    ELSE [w EXCEPT !.sm.rafId = 0]

_renderFrame(w) ==
    IF w.sm.content = NULL THEN [w EXCEPT !.sm.rafId = 0]
    ELSE IF w.sm.state = "SWIPING"
    THEN
      LET tx == FrameDelta(w.sm)
          absX == Abs(tx)
          actionPoint == w.sm.actionWidth
          w1 == IF absX >= actionPoint
                THEN IF w.sm.limitVibrationTimer = 0
                     THEN LET h == NewTimerId(w, w.sm.longPressTimer)
                          IN  [triggerHaptic(w, "heavy") EXCEPT
                                 !.sm.limitVibrationTimer = h,
                                 !.intervals = @ \cup {h}]
                     ELSE w
                ELSE LET v == _stopLimitVibration(w)
                         currentStep == absX \div HAPTIC_GRAIN
                     IN  IF currentStep # v.sm.lastFeedbackStep
                         THEN [(IF currentStep > v.sm.lastFeedbackStep
                                THEN IF 10 * absX > 6 * actionPoint
                                     THEN triggerHaptic(v, "light")
                                     ELSE triggerHaptic(v, "selection")
                                ELSE v)
                               EXCEPT !.sm.lastFeedbackStep = currentStep]
                         ELSE v
      IN  [w1 EXCEPT !.transform[w.sm.content] = << VisualX(tx, actionPoint) >>,
                     !.sm.rafId = 0]
    ELSE [w EXCEPT !.sm.rafId = 0]

\* ------------------------------------------------------- action finalizer
\* Faulty variant of _finalizeAction: a closed row opens at the threshold
\* itself (>= for >).
_finalizeAction_atThreshold(w, finalDeltaX) ==
    IF w.sm.card = NULL THEN w
    ELSE
      LET card == w.sm.card
          threshold == ACTION_THRESHOLD
      IN  IF w.sm.wasOpenLeft
          THEN IF finalDeltaX < -threshold
               THEN [w EXCEPT !.classList[card] = @ \ {"IS_OPEN_LEFT"}] ELSE w
          ELSE IF w.sm.wasOpenRight
          THEN IF finalDeltaX > threshold
               THEN [w EXCEPT !.classList[card] = @ \ {"IS_OPEN_RIGHT"}] ELSE w
          ELSE IF finalDeltaX >= threshold
               THEN [w EXCEPT !.classList[card] = @ \cup {"IS_OPEN_LEFT"}]
               ELSE IF finalDeltaX <= -threshold
                    THEN [w EXCEPT !.classList[card] = @ \cup {"IS_OPEN_RIGHT"}]
                    ELSE w

\* Faulty variant of _finalizeAction: an open panel is closed by a delta
\* beyond the threshold in either direction.
_finalizeAction_closesEitherWay(w, finalDeltaX) ==
    IF w.sm.card = NULL THEN w
    ELSE
      LET card == w.sm.card
          threshold == ACTION_THRESHOLD
      IN  IF w.sm.wasOpenLeft
          THEN IF Abs(finalDeltaX) > threshold
               THEN [w EXCEPT !.classList[card] = @ \ {"IS_OPEN_LEFT"}] ELSE w
          ELSE IF w.sm.wasOpenRight
          THEN IF Abs(finalDeltaX) > threshold
               THEN [w EXCEPT !.classList[card] = @ \ {"IS_OPEN_RIGHT"}] ELSE w
          ELSE IF finalDeltaX > threshold
               THEN [w EXCEPT !.classList[card] = @ \cup {"IS_OPEN_LEFT"}]
               ELSE IF finalDeltaX < -threshold
                    THEN [w EXCEPT !.classList[card] = @ \cup {"IS_OPEN_RIGHT"}]
                    ELSE w

_finalizeAction(w, finalDeltaX) ==
    IF w.sm.card = NULL THEN w
    ELSE
      LET card == w.sm.card
          threshold == ACTION_THRESHOLD
      IN  IF w.sm.wasOpenLeft
          THEN IF finalDeltaX < -threshold
               THEN [w EXCEPT !.classList[card] = @ \ {"IS_OPEN_LEFT"}] ELSE w
          ELSE IF w.sm.wasOpenRight
          THEN IF finalDeltaX > threshold
               THEN [w EXCEPT !.classList[card] = @ \ {"IS_OPEN_RIGHT"}] ELSE w
          ELSE IF finalDeltaX > threshold
               THEN [w EXCEPT !.classList[card] = @ \cup {"IS_OPEN_LEFT"}]
               ELSE IF finalDeltaX < -threshold
                    THEN [w EXCEPT !.classList[card] = @ \cup {"IS_OPEN_RIGHT"}]
                    ELSE w

\* ------------------------------------------------------- gesture handlers
\* The drag collaborator (./drag, not in src/): a session becomes active.
startDragSession(w, card, content, event) ==
    [w EXCEPT !.drag = [active |-> TRUE, card |-> card, content |-> content,
                        event |-> event],
              !.handoffs = @ + 1]

\* Faulty variant of _triggerDrag: the hand-off leaves the phase as it was.
_triggerDrag_keepsPhase(w, captureOk) ==
    LET w1 == _stopLimitVibration([w EXCEPT !.sm.longPressTimer = 0])
    IN  IF \/ w1.sm.state # "DETECTING" \/ w1.sm.card = NULL
           \/ w1.sm.content = NULL \/ w1.sm.initialEvent = << >>
        THEN w1
        ELSE IF ~captureOk THEN _forceReset(w1)
        ELSE
          LET card == w1.sm.card
              content == w1.sm.content
              w2 == [w1 EXCEPT !.capture[w1.sm.pointerId] = card]
              w3 == triggerHaptic(w2, "medium")
              w4 == [w3 EXCEPT !.classList[card] = @ \ {"is-charging"}]
              w5 == startDragSession(w4, card, content, w4.sm.initialEvent)
              w6 == _cleanListeners(w5)
          IN  [w6 EXCEPT !.classList[card] = @ \ {"is-pressing"},
                         !.transform[content] = << >>]

\* Faulty variant of _triggerDrag: a failed capture is swallowed and the
\* hand-off goes on without it.
_triggerDrag_ignoresFailure(w, captureOk) ==
    LET w1 == _stopLimitVibration([w EXCEPT !.sm.longPressTimer = 0])
    IN  IF \/ w1.sm.state # "DETECTING" \/ w1.sm.card = NULL
           \/ w1.sm.content = NULL \/ w1.sm.initialEvent = << >>
        THEN w1
        ELSE
          LET card == w1.sm.card
              content == w1.sm.content
              w2 == IF captureOk THEN [w1 EXCEPT !.capture[w1.sm.pointerId] = card]
                    ELSE w1
              w3 == triggerHaptic(w2, "medium")
              w4 == [w3 EXCEPT !.classList[card] = @ \ {"is-charging"}]
              w5 == startDragSession(w4, card, content, w4.sm.initialEvent)
              w6 == _cleanListeners(w5)
          IN  [w6 EXCEPT !.sm.state = "IDLE",
                         !.classList[card] = @ \ {"is-pressing"},
                         !.transform[content] = << >>]

\* captureOk: whether card.setPointerCapture returns (TRUE) or throws.
_triggerDrag(w, captureOk) ==
    LET w1 == _stopLimitVibration([w EXCEPT !.sm.longPressTimer = 0])
    IN  IF \/ w1.sm.state # "DETECTING" \/ w1.sm.card = NULL
           \/ w1.sm.content = NULL \/ w1.sm.initialEvent = << >>
        THEN w1
        ELSE IF ~captureOk THEN _forceReset(w1)
        ELSE
          LET card == w1.sm.card
              content == w1.sm.content
              w2 == [w1 EXCEPT !.capture[w1.sm.pointerId] = card]
              w3 == triggerHaptic(w2, "medium")
              w4 == [w3 EXCEPT !.classList[card] = @ \ {"is-charging"}]
              w5 == startDragSession(w4, card, content, w4.sm.initialEvent)
              w6 == _cleanListeners(w5)
          IN  [w6 EXCEPT !.sm.state = "IDLE",
                         !.classList[card] = @ \ {"is-pressing"},
                         !.transform[content] = << >>]

\* Faulty variant of HorizontalIntent: a diagonal move counts as horizontal.
HorizontalIntent_orEqual(absDx, absDy) ==
    absDx > DIRECTION_LOCKED_THRESHOLD /\ absDx >= absDy

\* The direction lock of _onPointerMove.
HorizontalIntent(absDx, absDy) ==
    absDx > DIRECTION_LOCKED_THRESHOLD /\ absDx > absDy

\* Faulty variant of trackPointer: a failed capture at swipe confirmation
\* aborts the gesture.
trackPointer_abortsOnFailure(w, e, captureOk) ==
    LET x == ToInt32(e.clientX)
        y == ToInt32(e.clientY)
        dx == x - w.sm.startX
        dy == y - w.sm.startY
        absDx == Abs(dx)
        absDy == Abs(dy)
        w1 == [w EXCEPT !.sm.currentX = x, !.sm.currentY = y]
    IN  IF w1.sm.state = "DETECTING" /\ w1.sm.longPressTimer # 0
        THEN IF HorizontalIntent(absDx, absDy)
             THEN IF ~captureOk THEN _forceReset(w1) ELSE [w1 EXCEPT
                     !.timeouts = @ \ {w1.sm.longPressTimer},
                     !.listeners = @ \ {"touchmove"},
                     !.capture = IF w1.sm.card # NULL /\ captureOk
                                 THEN [@ EXCEPT ![e.pointerId] = w1.sm.card]
                                 ELSE @,
                     !.sm.state = "SWIPING",
                     !.bodyActive = TRUE,
                     !.classList = IF w1.sm.card # NULL
                                   THEN [@ EXCEPT ![w1.sm.card] =
                                           (@ \ {"is-pressing", "is-charging"})
                                             \cup {"IS_SWIPING"}]
                                   ELSE @]
             ELSE w1
        ELSE IF w1.sm.state = "SWIPING"
             THEN IF w1.sm.rafId = 0
                  THEN LET h == NewFrameId(w1)
                       IN  [w1 EXCEPT !.sm.rafId = h, !.frames = @ \cup {h}]
                  ELSE w1
             ELSE w1

\* Faulty variant of trackPointer: every move of a swipe requests a frame,
\* whether or not one is pending.
trackPointer_alwaysRequests(w, e, captureOk) ==
    LET x == ToInt32(e.clientX)
        y == ToInt32(e.clientY)
        dx == x - w.sm.startX
        dy == y - w.sm.startY
        absDx == Abs(dx)
        absDy == Abs(dy)
        w1 == [w EXCEPT !.sm.currentX = x, !.sm.currentY = y]
    IN  IF w1.sm.state = "DETECTING" /\ w1.sm.longPressTimer # 0
        THEN IF HorizontalIntent(absDx, absDy)
             THEN [w1 EXCEPT
                     !.timeouts = @ \ {w1.sm.longPressTimer},
                     !.listeners = @ \ {"touchmove"},
                     !.capture = IF w1.sm.card # NULL /\ captureOk
                                 THEN [@ EXCEPT ![e.pointerId] = w1.sm.card]
                                 ELSE @,
                     !.sm.state = "SWIPING",
                     !.bodyActive = TRUE,
                     !.classList = IF w1.sm.card # NULL
                                   THEN [@ EXCEPT ![w1.sm.card] =
                                           (@ \ {"is-pressing", "is-charging"})
                                             \cup {"IS_SWIPING"}]
                                   ELSE @]
             ELSE w1
        ELSE IF w1.sm.state = "SWIPING"
             THEN LET h == NewFrameId(w1)
                  IN  [w1 EXCEPT !.sm.rafId = h, !.frames = @ \cup {h}]
             ELSE w1

\* Faulty variant of trackPointer: during a swipe the coordinates are
\* recorded only by the move that requests the frame.
trackPointer_coordsAtRequest(w, e, captureOk) ==
    LET x == ToInt32(e.clientX)
        y == ToInt32(e.clientY)
        dx == x - w.sm.startX
        dy == y - w.sm.startY
        absDx == Abs(dx)
        absDy == Abs(dy)
        w1 == [w EXCEPT !.sm.currentX = x, !.sm.currentY = y]
    IN  IF w1.sm.state = "DETECTING" /\ w1.sm.longPressTimer # 0
        THEN IF HorizontalIntent(absDx, absDy)
             THEN [w1 EXCEPT
                     !.timeouts = @ \ {w1.sm.longPressTimer},
                     !.listeners = @ \ {"touchmove"},
                     !.capture = IF w1.sm.card # NULL /\ captureOk
                                 THEN [@ EXCEPT ![e.pointerId] = w1.sm.card]
                                 ELSE @,
                     !.sm.state = "SWIPING",
                     !.bodyActive = TRUE,
                     !.classList = IF w1.sm.card # NULL
                                   THEN [@ EXCEPT ![w1.sm.card] =
                                           (@ \ {"is-pressing", "is-charging"})
                                             \cup {"IS_SWIPING"}]
                                   ELSE @]
             ELSE w1
        ELSE IF w.sm.state = "SWIPING"
             THEN IF w.sm.rafId = 0
                  THEN LET h == NewFrameId(w1)
                       IN  [w1 EXCEPT !.sm.rafId = h, !.frames = @ \cup {h}]
                  ELSE w
             ELSE w1

\* Faulty variant of trackPointer: the direction test runs in DETECTING
\* whether or not the long-press timer is still pending.
trackPointer_withoutTimer(w, e, captureOk) ==
    LET x == ToInt32(e.clientX)
        y == ToInt32(e.clientY)
        dx == x - w.sm.startX
        dy == y - w.sm.startY
        absDx == Abs(dx)
        absDy == Abs(dy)
        w1 == [w EXCEPT !.sm.currentX = x, !.sm.currentY = y]
    IN  IF w1.sm.state = "DETECTING"
        THEN IF HorizontalIntent(absDx, absDy)
             THEN [w1 EXCEPT
                     !.timeouts = @ \ {w1.sm.longPressTimer},
                     !.listeners = @ \ {"touchmove"},
                     !.capture = IF w1.sm.card # NULL /\ captureOk
                                 THEN [@ EXCEPT ![e.pointerId] = w1.sm.card]
                                 ELSE @,
                     !.sm.state = "SWIPING",
                     !.bodyActive = TRUE,
                     !.classList = IF w1.sm.card # NULL
                                   THEN [@ EXCEPT ![w1.sm.card] =
                                           (@ \ {"is-pressing", "is-charging"})
                                             \cup {"IS_SWIPING"}]
                                   ELSE @]
             ELSE w1
        ELSE IF w1.sm.state = "SWIPING"
             THEN IF w1.sm.rafId = 0
                  THEN LET h == NewFrameId(w1)
                       IN  [w1 EXCEPT !.sm.rafId = h, !.frames = @ \cup {h}]
                  ELSE w1
             ELSE w1

\* Lines 309-353 of _onPointerMove: the coordinates are recorded, then the
\* phase decides.  e = [pointerId, clientX, clientY]
trackPointer(w, e, captureOk) ==
    LET x == ToInt32(e.clientX)
        y == ToInt32(e.clientY)
        dx == x - w.sm.startX
        dy == y - w.sm.startY
        absDx == Abs(dx)
        absDy == Abs(dy)
        w1 == [w EXCEPT !.sm.currentX = x, !.sm.currentY = y]
    IN  IF w1.sm.state = "DETECTING" /\ w1.sm.longPressTimer # 0
        THEN IF HorizontalIntent(absDx, absDy)
             THEN [w1 EXCEPT
                     !.timeouts = @ \ {w1.sm.longPressTimer},
                     !.listeners = @ \ {"touchmove"},
                     !.capture = IF w1.sm.card # NULL /\ captureOk
                                 THEN [@ EXCEPT ![e.pointerId] = w1.sm.card]
                                 ELSE @,
                     !.sm.state = "SWIPING",
                     !.bodyActive = TRUE,
                     !.classList = IF w1.sm.card # NULL
                                   THEN [@ EXCEPT ![w1.sm.card] =
                                           (@ \ {"is-pressing", "is-charging"})
                                             \cup {"IS_SWIPING"}]
                                   ELSE @]
             ELSE w1
        ELSE IF w1.sm.state = "SWIPING"
             THEN IF w1.sm.rafId = 0
                  THEN LET h == NewFrameId(w1)
                       IN  [w1 EXCEPT !.sm.rafId = h, !.frames = @ \cup {h}]
                  ELSE w1
             ELSE w1

\* Faulty variant of _onPointerMove: the drag query is left out.
_onPointerMove_noDragCheck(w, e, captureOk) ==
    IF w.sm.state = "IDLE" \/ w.sm.state = "LOCKED_OUT" THEN w
    ELSE trackPointer(w, e, captureOk)

\* Faulty variant of _onPointerMove: only IDLE is ignored, LOCKED_OUT is
\* handled like a live phase.
_onPointerMove_lockedOutTracks(w, e, captureOk) ==
    IF w.sm.state = "IDLE" THEN w
    ELSE IF isDragActive(w) THEN _forceReset(w)
    ELSE trackPointer(w, e, captureOk)

_onPointerMove(w, e, captureOk) ==
    IF w.sm.state = "IDLE" \/ w.sm.state = "LOCKED_OUT" THEN w
    ELSE IF isDragActive(w) THEN _forceReset(w)
    ELSE trackPointer(w, e, captureOk)

\* Faulty variant of _onPointerUp: only a swipe is reset, a tap is not.
_onPointerUp_swipeOnly(w) ==
    LET w1 == [w EXCEPT !.timeouts = IF w.sm.longPressTimer # 0
                                     THEN @ \ {w.sm.longPressTimer} ELSE @]
        w2 == _stopLimitVibration(w1)
    IN  IF w2.sm.state = "SWIPING"
        THEN LET dx == w2.sm.currentX - w2.sm.startX
                 f == _finalizeAction(w2, dx)
             IN  _forceReset(IF Abs(dx) > ACTION_THRESHOLD
                             THEN [f EXCEPT !.clickBlockers = @ + 1, !.clickTimers = @ + 1]
                             ELSE f)
        ELSE w2

\* Faulty variant of _onPointerUp: the action is finalized in every phase.
_onPointerUp_finalizesAlways(w) ==
    LET w1 == [w EXCEPT !.timeouts = IF w.sm.longPressTimer # 0
                                     THEN @ \ {w.sm.longPressTimer} ELSE @]
        w2 == _stopLimitVibration(w1)
        w3 == LET dx == w2.sm.currentX - w2.sm.startX
                  f == _finalizeAction(w2, dx)
              IN  IF w2.sm.state = "SWIPING" /\ Abs(dx) > ACTION_THRESHOLD
                  THEN [f EXCEPT !.clickBlockers = @ + 1, !.clickTimers = @ + 1]
                  ELSE f
    IN  _forceReset(w3)

_onPointerUp(w) ==
    LET w1 == [w EXCEPT !.timeouts = IF w.sm.longPressTimer # 0
                                     THEN @ \ {w.sm.longPressTimer} ELSE @]
        w2 == _stopLimitVibration(w1)
        w3 == IF w2.sm.state = "SWIPING"
              THEN LET dx == w2.sm.currentX - w2.sm.startX
                       f == _finalizeAction(w2, dx)
                   IN  IF Abs(dx) > ACTION_THRESHOLD
                       THEN [f EXCEPT !.clickBlockers = @ + 1, !.clickTimers = @ + 1]
                       ELSE f
              ELSE w2
    IN  _forceReset(w3)

\* Faulty variant of closeOthers: the other rows are left as they are.
closeOthers_none(classes, card) == classes

\* openCards.forEach of the pointerdown listener: every other row is closed.
closeOthers(classes, card) ==
    [r \in Rows |-> IF r # card THEN classes[r] \ {"IS_OPEN_LEFT", "IS_OPEN_RIGHT"}
                    ELSE classes[r]]

\* Faulty variant of onPointerDown: the prior session is not reset first.
onPointerDown_noReset(w, e) ==
    IF e.button # 0 \/ isDragActive(w) THEN w
    ELSE
      LET w1 == w
          cw == e.target
          card == cw
      IN  IF card = NULL \/ cw = NULL THEN w1
          ELSE
            LET h == NewTimerId(w1, w1.sm.limitVibrationTimer)
                pressed == [w1.classList EXCEPT
                              ![card] = @ \cup {"is-pressing", "is-charging"}]
                cls == closeOthers(pressed, card)
            IN  [w1 EXCEPT
                   !.classList = cls,
                   !.closedRows = {r \in Rows : cls[r] # pressed[r]},
                   !.sm.state = "DETECTING",
                   !.sm.card = card,
                   !.sm.content = cw,
                   !.sm.initialEvent = << e >>,
                   !.sm.startX = ToInt32(e.clientX),
                   !.sm.currentX = ToInt32(e.clientX),
                   !.sm.startY = ToInt32(e.clientY),
                   !.sm.currentY = ToInt32(e.clientY),
                   !.sm.pointerId = e.pointerId,
                   !.sm.wasOpenLeft = "IS_OPEN_LEFT" \in cls[card],
                   !.sm.wasOpenRight = "IS_OPEN_RIGHT" \in cls[card],
                   !.sm.lastFeedbackStep = 0,
                   !.sm.limitVibrationTimer = 0,
                   !.sm.longPressTimer = h,
                   !.timeouts = @ \cup {h},
                   !.handoffs = 0,
                   !.listeners = @ \cup WindowListeners]

\* Faulty variant of onPointerDown: the pointer is captured at pointerdown,
\* as the earlier revision did.
onPointerDown_capturing(w, e) ==
    IF e.button # 0 \/ isDragActive(w) THEN w
    ELSE
      LET w1 == _forceReset(w)
          cw == e.target
          card == cw
      IN  IF card = NULL \/ cw = NULL THEN w1
          ELSE
            LET h == NewTimerId(w1, w1.sm.limitVibrationTimer)
                pressed == [w1.classList EXCEPT
                              ![card] = @ \cup {"is-pressing", "is-charging"}]
                cls == closeOthers(pressed, card)
            IN  [w1 EXCEPT
                   !.capture[e.pointerId] = card,
                   !.classList = cls,
                   !.closedRows = {r \in Rows : cls[r] # pressed[r]},
                   !.sm.state = "DETECTING",
                   !.sm.card = card,
                   !.sm.content = cw,
                   !.sm.initialEvent = << e >>,
                   !.sm.startX = ToInt32(e.clientX),
                   !.sm.currentX = ToInt32(e.clientX),
                   !.sm.startY = ToInt32(e.clientY),
                   !.sm.currentY = ToInt32(e.clientY),
                   !.sm.pointerId = e.pointerId,
                   !.sm.wasOpenLeft = "IS_OPEN_LEFT" \in cls[card],
                   !.sm.wasOpenRight = "IS_OPEN_RIGHT" \in cls[card],
                   !.sm.lastFeedbackStep = 0,
                   !.sm.limitVibrationTimer = 0,
                   !.sm.longPressTimer = h,
                   !.timeouts = @ \cup {h},
                   !.handoffs = 0,
                   !.listeners = @ \cup WindowListeners]

\* Faulty variant of onPointerDown: every button arms a session.
onPointerDown_anyButton(w, e) ==
    IF isDragActive(w) THEN w
    ELSE
      LET w1 == _forceReset(w)
          cw == e.target
          card == cw
      IN  IF card = NULL \/ cw = NULL THEN w1
          ELSE
            LET h == NewTimerId(w1, w1.sm.limitVibrationTimer)
                pressed == [w1.classList EXCEPT
                              ![card] = @ \cup {"is-pressing", "is-charging"}]
                cls == closeOthers(pressed, card)
            IN  [w1 EXCEPT
                   !.classList = cls,
                   !.closedRows = {r \in Rows : cls[r] # pressed[r]},
                   !.sm.state = "DETECTING",
                   !.sm.card = card,
                   !.sm.content = cw,
                   !.sm.initialEvent = << e >>,
                   !.sm.startX = ToInt32(e.clientX),
                   !.sm.currentX = ToInt32(e.clientX),
                   !.sm.startY = ToInt32(e.clientY),
                   !.sm.currentY = ToInt32(e.clientY),
                   !.sm.pointerId = e.pointerId,
                   !.sm.wasOpenLeft = "IS_OPEN_LEFT" \in cls[card],
                   !.sm.wasOpenRight = "IS_OPEN_RIGHT" \in cls[card],
                   !.sm.lastFeedbackStep = 0,
                   !.sm.limitVibrationTimer = 0,
                   !.sm.longPressTimer = h,
                   !.timeouts = @ \cup {h},
                   !.handoffs = 0,
                   !.listeners = @ \cup WindowListeners]

\* The container's pointerdown listener.
\* e = [pointerId, clientX, clientY, button, target]; target is the row whose
\* content wrapper encloses the event target, or NULL when none does.
onPointerDown(w, e) ==
    IF e.button # 0 \/ isDragActive(w) THEN w
    ELSE
      LET w1 == _forceReset(w)
          cw == e.target
          card == cw
      IN  IF card = NULL \/ cw = NULL THEN w1
          ELSE
            LET h == NewTimerId(w1, w1.sm.limitVibrationTimer)
                pressed == [w1.classList EXCEPT
                              ![card] = @ \cup {"is-pressing", "is-charging"}]
                cls == closeOthers(pressed, card)
            IN  [w1 EXCEPT
                   !.classList = cls,
                   !.closedRows = {r \in Rows : cls[r] # pressed[r]},
                   !.sm.state = "DETECTING",
                   !.sm.card = card,
                   !.sm.content = cw,
                   !.sm.initialEvent = << e >>,
                   !.sm.startX = ToInt32(e.clientX),
                   !.sm.currentX = ToInt32(e.clientX),
                   !.sm.startY = ToInt32(e.clientY),
                   !.sm.currentY = ToInt32(e.clientY),
                   !.sm.pointerId = e.pointerId,
                   !.sm.wasOpenLeft = "IS_OPEN_LEFT" \in cls[card],
                   !.sm.wasOpenRight = "IS_OPEN_RIGHT" \in cls[card],
                   !.sm.lastFeedbackStep = 0,
                   !.sm.limitVibrationTimer = 0,
                   !.sm.longPressTimer = h,
                   !.timeouts = @ \cup {h},
                   !.handoffs = 0,
                   !.listeners = @ \cup WindowListeners]

\* The browser releases a pointer's capture once its pointerup or
\* pointercancel has been dispatched.
implicitRelease(w, pid) == [w EXCEPT !.capture[pid] = NULL]

\* Faulty variant of blockClick: the closure does not detach itself and goes
\* on blocking until its timeout.
blockClick_staysAttached(w, onActionButton) ==
    IF w.clickBlockers > 0
    THEN [w EXCEPT !.clickStopped = ~onActionButton]
    ELSE w

\* blockClick closures of _onPointerUp: every attached closure runs once.
blockClick(w, onActionButton) ==
    IF w.clickBlockers > 0
    THEN [w EXCEPT !.clickStopped = ~onActionButton, !.clickBlockers = 0]
    ELSE w

\* ---------------------------------------------------------------- inputs
DownEvents ==
    [pointerId : PointerIds, clientX : {SubPixel * x + 1 : x \in DownXs},
     clientY : {SubPixel * y : y \in DownYs},
     button : Buttons, target : Rows \cup {NULL}]

MoveEvents ==
    { [pointerId |-> p, clientX |-> SubPixel * (x0 + o[1]) + 1,
       clientY |-> SubPixel * (y0 + o[2])] :
        p \in PointerIds, x0 \in DownXs, y0 \in DownYs, o \in MoveOffsets }

TouchEvents ==
    { [hasTouch |-> TRUE, clientX |-> SubPixel * (x0 + o[1]),
       clientY |-> SubPixel * (y0 + o[2]), cancelable |-> c] :
        c \in BOOLEAN, x0 \in DownXs, y0 \in DownYs, o \in TouchOffsets }
    \cup { [hasTouch |-> FALSE, clientX |-> 0, clientY |-> 0, cancelable |-> TRUE] }

\* ---------------------------------------------------------------- actions
PointerDown(e, dirty) ==
    /\ e \in DownEvents
    /\ Becomes(onPointerDown(World(dirty), e), "pointerdown")

PointerMove(e, captureOk, dirty) ==
    /\ "pointermove" \in listeners
    /\ LET w == _onPointerMove(World(dirty), e, captureOk)
       IN  Becomes(w, "pointermove")

PointerUp(pid, dirty) ==
    /\ "pointerup" \in listeners
    /\ LET w == implicitRelease(_onPointerUp(World(dirty)), pid)
       IN  w.clickTimers <= MaxClickTimers /\ Becomes(w, "pointerup")

PointerCancel(pid, dirty) ==
    /\ "pointercancel" \in listeners
    /\ LET w == implicitRelease(_forceReset(World(dirty)), pid)
       IN  Becomes(w, "pointercancel")

Blur(dirty) ==
    /\ "blur" \in listeners
    /\ LET w == _forceReset(World(dirty))
       IN  Becomes(w, "blur")

TouchMove(e) ==
    /\ "touchmove" \in listeners
    /\ Becomes(_activeTouchGuard(World(FALSE), e), "touchmove")

\* The long-press timeout h expires and runs _triggerDrag.
LongPressFire(h, captureOk, dirty) ==
    /\ h \in timeouts
    /\ LET w == _triggerDrag([World(dirty) EXCEPT !.timeouts = @ \ {h}], captureOk)
       IN  Becomes(w, "longpress")

\* The animation frame h runs _renderFrame.
AnimationFrame(h) ==
    /\ h \in frames
    /\ Becomes(_renderFrame([World(FALSE) EXCEPT !.frames = @ \ {h}]), "frame")

\* One tick of the 80 ms limit-pulse interval.
LimitPulse(h) ==
    /\ h \in intervals
    /\ Becomes(triggerHaptic(World(FALSE), "medium"), "limitpulse")

Click(onActionButton) ==
    /\ onActionButton \in BOOLEAN
    /\ Becomes(blockClick(World(FALSE), onActionButton), "click")

\* The oldest SWIPE_BLOCK_CLICK_MS timeout expires; its closure is still
\* attached exactly when every pending timeout's closure is.
ClickTimerFire ==
    /\ clickTimers > 0
    /\ Becomes([World(FALSE) EXCEPT
                  !.clickBlockers = IF clickBlockers = clickTimers THEN @ - 1 ELSE @,
                  !.clickTimers = @ - 1], "clicktimer")

\* The frame after a reset asked for a re-render: the pending callbacks
\* run and call renderApp (../render, not in src/).
RenderAppFrame ==
    /\ renderQueued
    /\ Becomes([World(FALSE) EXCEPT !.renderQueued = FALSE], "render")

\* The collaborators' own steps.
DragStartExternal ==
    /\ ~dragSession.active
    /\ Becomes([World(FALSE) EXCEPT !.drag.active = TRUE], "dragstart")

NoDrag == [active |-> FALSE, card |-> NULL, content |-> NULL, event |-> << >>]

DragEnd(pid) ==
    /\ dragSession.active
    /\ Becomes(implicitRelease([World(FALSE) EXCEPT !.drag = NoDrag], pid), "dragend")

\* What a step reads from outside.  setPointerCapture is reached only from
\* DETECTING, and the invalidation flag is read only by _forceReset; where
\* the handler cannot reach them their value is immaterial and one is drawn.
CaptureOutcomes == IF SwipeMachine.state = "DETECTING" THEN BOOLEAN ELSE {TRUE}
FlagValues(resets) == IF resets THEN BOOLEAN ELSE {FALSE}

Next ==
    \/ \E e \in DownEvents : \E d \in FlagValues(e.button = 0) : PointerDown(e, d)
    \/ \E e \in MoveEvents, ok \in CaptureOutcomes, d \in FlagValues(dragSession.active) :
          PointerMove(e, ok, d)
    \/ \E p \in PointerIds, d \in BOOLEAN : PointerUp(p, d)
    \/ \E p \in PointerIds, d \in BOOLEAN : PointerCancel(p, d)
    \/ \E d \in BOOLEAN : Blur(d)
    \/ \E e \in TouchEvents : TouchMove(e)
    \/ \E h \in timeouts, ok \in BOOLEAN : \E d \in FlagValues(~ok) :
          LongPressFire(h, ok, d)
    \/ \E h \in frames : AnimationFrame(h)
    \/ \E h \in intervals : LimitPulse(h)
    \/ RenderAppFrame
    \/ \E b \in BOOLEAN : Click(b)
    \/ ClickTimerFire
    \/ DragStartExternal
    \/ \E p \in PointerIds : DragEnd(p)

Spec == Init /\ [][Next]_vars

\* A gesture is ended by the platform: the finger is lifted, the browser
\* takes the sequence over (pointercancel) or the window loses focus.  The
\* three listeners are attached together by pointerdown and detached together
\* by _cleanListeners, so such a step of Next is possible exactly while they
\* are attached, and it is a PointerUp, PointerCancel or Blur step.  Such a
\* step always changes lastEvent, which no state with the listeners attached
\* has at one of the three values; hence the subscript of the fairness.
EndOfGesture ==
    /\ {"pointerup", "pointercancel", "blur"} \cap listeners # {}
    /\ lastEvent' \in {"pointerup", "pointercancel", "blur"}

LiveSpec == Spec /\ WF_lastEvent(EndOfGesture)

\* ------------------------------------------------------------ properties
InSession == SwipeMachine.state \in {"DETECTING", "SWIPING"}
IsOpen(r) == classList[r] \cap {"IS_OPEN_LEFT", "IS_OPEN_RIGHT"} # {}
Sgn(n) == IF n > 0 THEN 1 ELSE IF n < 0 THEN -1 ELSE 0

\* What a reset is to leave behind: phase IDLE, the three handle fields 0,
\* nothing of the session pending, no window listener attached.
ResetIsClean(w) ==
    /\ w.sm.state = "IDLE"
    /\ w.sm.longPressTimer = 0
    /\ w.sm.limitVibrationTimer = 0
    /\ w.sm.rafId = 0
    /\ w.timeouts = {} /\ w.intervals = {} /\ w.frames = {}
    /\ w.listeners \cap WindowListeners = {}

\* C1: a reset (here the one window blur runs) from any phase ends in IDLE
\* with the long-press, limit-pulse and frame handles 0 and no window
\* listener attached, and a second consecutive reset leaves the session as
\* the first one left it.
C1_ResetIdempotentTotal ==
    [][ \A d \in BOOLEAN :
          (lastEvent' = "blur" /\ Blur(d)) =>
             LET r1 == _forceReset(World(d))
                 r2 == _forceReset(r1)
             IN  /\ ResetIsClean(r1)
                 /\ ResetIsClean(r2)
                 /\ r2.sm = r1.sm
                 /\ SwipeMachine' = r1.sm ]_vars

\* C2: in DETECTING or SWIPING each of pointerup, pointercancel, blur, a
\* pointer move seen while a drag is active and the long-press timer firing
\* ends in IDLE within the event; and with an end-of-gesture event
\* eventually delivered every non-IDLE state leads to IDLE.
C2_EveryGestureEndsIdle ==
    /\ [][ ( /\ InSession
             /\ \/ lastEvent' \in {"pointerup", "pointercancel", "blur", "longpress"}
                \/ lastEvent' = "pointermove" /\ dragSession.active )
           => SwipeMachine'.state = "IDLE" ]_vars
    /\ (SwipeMachine.state # "IDLE") ~> (SwipeMachine.state = "IDLE")

C2_SwipeEndedByPointerUp ==
    /\ lastEvent = "pointerup"
    /\ SwipeMachine.state = "IDLE"
    /\ SwipeMachine.currentX # SwipeMachine.startX

\* C3: the phase is IDLE exactly when every handle is cleared
\* (longPressTimer, limitVibrationTimer, rafId 0 and pointerId -1) and card
\* and content are null.
C3_IdleIffCleared ==
    (SwipeMachine.state = "IDLE") <=>
       ( /\ SwipeMachine.longPressTimer = 0
         /\ SwipeMachine.limitVibrationTimer = 0
         /\ SwipeMachine.rafId = 0
         /\ SwipeMachine.pointerId = NoPointer
         /\ SwipeMachine.card = NULL
         /\ SwipeMachine.content = NULL )

\* The move event e has |dx| <= 5 or |dx| <= |dy|, measured from the origin.
Undecided(e) ==
    LET absDx == Abs(ToInt32(e.clientX) - SwipeMachine.startX)
        absDy == Abs(ToInt32(e.clientY) - SwipeMachine.startY)
    IN  absDx <= 5 \/ absDx <= absDy

\* C4 as stated: in DETECTING no pointer move with |dx| <= 5 or
\* |dx| <= |dy| takes the phase out of DETECTING.
C4_DirectionLockAnyMove ==
    [][ ( /\ lastEvent' = "pointermove"
          /\ SwipeMachine.state = "DETECTING"
          /\ \E e \in MoveEvents, ok \in BOOLEAN, d \in BOOLEAN :
                Undecided(e) /\ PointerMove(e, ok, d) )
        => SwipeMachine'.state = "DETECTING" ]_vars

\* C4 as amended: in DETECTING, with no drag session active, no pointer
\* move with |dx| <= 5 or |dx| <= |dy| takes the phase out of DETECTING.
C4_DirectionLock ==
    [][ ( /\ lastEvent' = "pointermove"
          /\ SwipeMachine.state = "DETECTING"
          /\ ~dragSession.active
          /\ \E e \in MoveEvents, ok \in BOOLEAN, d \in BOOLEAN :
                Undecided(e) /\ PointerMove(e, ok, d) )
        => SwipeMachine'.state = "DETECTING" ]_vars

\* A diagonal move (|dx| = |dy| = 6) was processed and the phase stayed.
C4_DiagonalMoveKept ==
    /\ lastEvent = "pointermove"
    /\ SwipeMachine.state = "DETECTING"
    /\ SwipeMachine.currentX = SwipeMachine.startX + 6
    /\ SwipeMachine.currentY = SwipeMachine.startY + 6

\* C5: in DETECTING, with no drag active, a pointer move with |dx| > 5 and
\* |dx| > |dy| makes the phase SWIPING in that event, with the long-press
\* timer cancelled, the touch guard detached and the swiping class on the row.
C5_HorizontalMoveStartsSwipe ==
    [][ ( /\ lastEvent' = "pointermove"
          /\ SwipeMachine.state = "DETECTING"
          /\ ~dragSession.active
          /\ \E e \in MoveEvents, ok \in BOOLEAN, d \in BOOLEAN :
                ~Undecided(e) /\ PointerMove(e, ok, d) )
        => /\ SwipeMachine'.state = "SWIPING"
           /\ timeouts' = {}
           /\ "touchmove" \notin listeners'
           /\ "IS_SWIPING" \in classList'[SwipeMachine.card] ]_vars

\* C6 as stated: the long-press timer firing in DETECTING invokes
\* startDragSession exactly once and makes the phase IDLE; never more than
\* one invocation per pointerdown.
C6_HandoffAlways ==
    /\ [][ (lastEvent' = "longpress" /\ SwipeMachine.state = "DETECTING")
           => (handoffs' = 1 /\ SwipeMachine'.state = "IDLE") ]_vars
    /\ [](handoffs <= 1)

\* C6 as amended: the long-press timer fires only in DETECTING and makes the
\* phase IDLE; startDragSession is invoked exactly once when the pointer
\* capture is acquired and not at all when it fails; never more than one
\* invocation per pointerdown.
C6_HandoffOnce ==
    /\ [][ \A h \in timeouts, ok \in BOOLEAN, d \in BOOLEAN :
             (lastEvent' = "longpress" /\ LongPressFire(h, ok, d))
             => /\ SwipeMachine.state = "DETECTING"
                /\ SwipeMachine'.state = "IDLE"
                /\ handoffs' = (IF ok THEN 1 ELSE 0)
                /\ dragSession'.active = (ok \/ dragSession.active) ]_vars
    /\ [](handoffs <= 1)

C6_HandedOff ==
    /\ lastEvent = "longpress"
    /\ handoffs = 1
    /\ dragSession.active
    /\ SwipeMachine.state = "IDLE"

\* C7: a pointerup in SWIPING on a row that had no panel open at pointerdown
\* leaves the row open-left iff d > T and open-right iff d < -T, with
\* d = last x - origin x; otherwise (d = T and d = -T included) closed.
C7_ThresholdDeterminism ==
    [][ ( /\ lastEvent' = "pointerup"
          /\ SwipeMachine.state = "SWIPING"
          /\ ~SwipeMachine.wasOpenLeft /\ ~SwipeMachine.wasOpenRight )
        => LET d == SwipeMachine.currentX - SwipeMachine.startX
               after == classList'[SwipeMachine.card]
           IN  /\ ("IS_OPEN_LEFT" \in after) <=> (d > ACTION_THRESHOLD)
               /\ ("IS_OPEN_RIGHT" \in after) <=> (d < -ACTION_THRESHOLD) ]_vars

\* A swipe of a closed row ended exactly at the threshold, and no row is open.
C7_ClosedAtThreshold ==
    /\ lastEvent = "pointerup"
    /\ ~SwipeMachine.wasOpenLeft /\ ~SwipeMachine.wasOpenRight
    /\ SwipeMachine.currentX - SwipeMachine.startX = ACTION_THRESHOLD
    /\ SwipeMachine.longPressTimer # 0
    /\ \A r \in Rows : ~IsOpen(r)

\* C8: no row carries both open classes, at most one row is open, and an
\* accepted pointerdown removes the open classes from every other row in
\* that event.
C8_SingleOpenPanel ==
    /\ [](\A r \in Rows : ~({"IS_OPEN_LEFT", "IS_OPEN_RIGHT"} \subseteq classList[r]))
    /\ [](Cardinality({r \in Rows : IsOpen(r)}) <= 1)
    /\ [][ \A e \in DownEvents, d \in BOOLEAN :
             ( /\ lastEvent' = "pointerdown"
               /\ e.button = 0 /\ ~dragSession.active /\ e.target # NULL
               /\ PointerDown(e, d) )
             => \A r \in Rows \ {e.target} :
                   classList'[r] \cap {"IS_OPEN_LEFT", "IS_OPEN_RIGHT"} = {} ]_vars

\* A pointerdown on one row has just closed the open panel of another.
C8_OtherRowClosed ==
    /\ lastEvent = "pointerdown"
    /\ closedRows # {}
    /\ SwipeMachine.state = "DETECTING"

\* C9: a pointer move seen in DETECTING or SWIPING while a drag session is
\* active resets to IDLE in that event, with no coordinates recorded, no
\* transition to SWIPING and no frame requested.
C9_DragMutualExclusion ==
    [][ ( /\ lastEvent' = "pointermove"
          /\ InSession
          /\ dragSession.active )
        => /\ SwipeMachine'.state = "IDLE"
           /\ SwipeMachine'.currentX = SwipeMachine.currentX
           /\ SwipeMachine'.currentY = SwipeMachine.currentY
           /\ frames' = {} /\ SwipeMachine'.rafId = 0
           /\ listeners' \cap WindowListeners = {} ]_vars

\* A pointer move ended a session: only the drag check makes a move reset.
C9_MoveResetSession ==
    /\ lastEvent = "pointermove"
    /\ SwipeMachine.state = "IDLE"
    /\ dragSession.active

\* C10: a frame rendered in SWIPING writes sign(delta) * (actionWidth +
\* min((|delta| - actionWidth) * 0.25, 20)) when |delta| >= actionWidth and
\* delta otherwise, so never more than actionWidth + 20 in magnitude
\* (values in quarter pixels).
C10_RubberBandCeiling ==
    [][ ( /\ lastEvent' = "frame"
          /\ SwipeMachine.state = "SWIPING"
          /\ SwipeMachine.content # NULL )
        => LET aw == SwipeMachine.actionWidth
               delta == (SwipeMachine.currentX - SwipeMachine.startX)
                          + (IF SwipeMachine.wasOpenLeft THEN aw ELSE 0)
                          - (IF SwipeMachine.wasOpenRight THEN aw ELSE 0)
               t == transform'[SwipeMachine.content]
           IN  /\ t # << >>
               /\ Abs(delta) >= aw =>
                    t[1] = Sgn(delta) * (4 * aw + Min(Abs(delta) - aw, 4 * 20))
               /\ Abs(delta) < aw => t[1] = 4 * delta
               /\ Abs(t[1]) <= 4 * (aw + 20) ]_vars

\* A frame was rendered at the ceiling: 60 + 20 pixels.
C10_RenderedAtCeiling ==
    /\ lastEvent = "frame"
    /\ SwipeMachine.state = "SWIPING"
    /\ \E r \in Rows : transform[r] = << 4 * (SwipeMachine.actionWidth + 20) >>

\* The 8-px step of the displacement the previous frame of this swipe
\* rendered, read back from the transform it wrote (no frame yet: the origin,
\* step 0).  A frame pinned at the limit rendered a displacement of at least
\* actionWidth, whose step no displacement of the progressive zone exceeds.
PreviousRenderedStep ==
    LET t == transform[SwipeMachine.content]
        aw == SwipeMachine.actionWidth
    IN  IF t = << >> THEN 0
        ELSE IF Abs(t[1]) >= RESISTANCE_DIV * aw THEN aw \div HAPTIC_GRAIN
        ELSE (Abs(t[1]) \div RESISTANCE_DIV) \div HAPTIC_GRAIN

\* C11: a frame of a swipe emits a progressive-zone pulse ('light' or
\* 'selection') only if the 8-px step of the displacement it renders is
\* greater than the step of the displacement the previous frame rendered.
C11_HapticEdgeTriggered ==
    [][ ( /\ lastEvent' = "frame"
          /\ SwipeMachine.state = "SWIPING"
          /\ SwipeMachine.content # NULL
          /\ \E i \in DOMAIN haptics' : haptics'[i] \in {"light", "selection"} )
        => (Abs(FrameDelta(SwipeMachine)) \div HAPTIC_GRAIN) > PreviousRenderedStep ]_vars

\* The step leaves nothing of the session that was live before it: no
\* frame, interval or second timer pending, the global flag and the prior
\* row's swiping class gone, its transform cleared, its pointer released,
\* and the listeners those of the new session only.
PriorSessionReset ==
    LET old == SwipeMachine.card
    IN  /\ SwipeMachine'.state \in {"IDLE", "DETECTING"}
        /\ frames' = {} /\ intervals' = {}
        /\ SwipeMachine'.rafId = 0 /\ SwipeMachine'.limitVibrationTimer = 0
        /\ bodyActive' = FALSE
        /\ "IS_SWIPING" \notin classList'[old]
        /\ transform'[old] = << >>
        /\ capture'[SwipeMachine.pointerId] # old \/ SwipeMachine'.card = old
        /\ old # SwipeMachine'.card =>
              classList'[old] \cap {"is-pressing", "is-charging"} = {}
        /\ IF SwipeMachine'.state = "DETECTING"
           THEN timeouts' = {SwipeMachine'.longPressTimer} /\ listeners' = WindowListeners
           ELSE timeouts' = {} /\ listeners' = {}

\* C12 as stated: every pointerdown that arrives in DETECTING or SWIPING
\* force-resets that session first; never two long-press timers pending.
C12_EveryPointerDownSupersedes ==
    /\ [][ (lastEvent' = "pointerdown" /\ InSession) => PriorSessionReset ]_vars
    /\ [](Cardinality(timeouts) <= 1)

\* C12 as amended: every pointerdown with the primary button that arrives in
\* DETECTING or SWIPING while no drag session is active force-resets that
\* session first; never two long-press timers pending.
C12_AcceptedPointerDownSupersedes ==
    /\ [][ ( /\ lastEvent' = "pointerdown" /\ InSession
             /\ ~dragSession.active
             /\ \E e \in DownEvents, d \in BOOLEAN : e.button = 0 /\ PointerDown(e, d) )
           => PriorSessionReset ]_vars
    /\ [](Cardinality(timeouts) <= 1)

\* A pointerdown has just superseded a swipe pinned at the limit: the reset
\* stopped its limit pulse, and a new session is armed.
C12_SupersededSwipe ==
    /\ lastEvent = "pointerdown"
    /\ SwipeMachine.state = "DETECTING"
    /\ haptics = << "vibrate0" >>

\* C13: when setPointerCapture throws as the long-press timer fires in
\* DETECTING, the step ends in IDLE with the session fields cleared (row,
\* content, event, pointer id, handles), no listener attached, the row's
\* pressing and charging classes removed, no capture taken, and
\* startDragSession not invoked.
C13_CaptureFailureAborts ==
    [][ \A h \in timeouts, d \in BOOLEAN :
          ( /\ lastEvent' = "longpress"
            /\ SwipeMachine.state = "DETECTING"
            /\ LongPressFire(h, FALSE, d) )
          => /\ SwipeMachine'.state = "IDLE"
             /\ SwipeMachine'.card = NULL /\ SwipeMachine'.content = NULL
             /\ SwipeMachine'.initialEvent = << >>
             /\ SwipeMachine'.pointerId = NoPointer
             /\ SwipeMachine'.longPressTimer = 0
             /\ SwipeMachine'.limitVibrationTimer = 0 /\ SwipeMachine'.rafId = 0
             /\ timeouts' = {} /\ intervals' = {} /\ frames' = {}
             /\ listeners' = {}
             /\ classList'[SwipeMachine.card] \cap {"is-pressing", "is-charging"} = {}
             /\ capture'[SwipeMachine.pointerId] # SwipeMachine.card
             /\ handoffs' = 0
             /\ dragSession' = dragSession ]_vars

\* The long-press timer fired, the capture failed and the session was reset:
\* nothing was handed over (a hand-off leaves the row in the session record).
C13_AbortedHandoff ==
    /\ lastEvent = "longpress"
    /\ handoffs = 0
    /\ SwipeMachine.card = NULL
    /\ ~dragSession.active

\* C14: when setPointerCapture throws at swipe confirmation (a move with
\* |dx| > 5 and |dx| > |dy| in DETECTING that reaches the capture), the
\* step still ends in SWIPING with the timer cancelled, the guard detached
\* and the swiping visuals applied, exactly as when the capture succeeds
\* but with no capture taken; and no later step of the swipe takes it.
C14_CaptureFailureIgnored ==
    /\ [][ \A e \in MoveEvents, d \in BOOLEAN :
             ( /\ lastEvent' = "pointermove"
               /\ SwipeMachine.state = "DETECTING"
               /\ ~dragSession.active
               /\ SwipeMachine.longPressTimer # 0
               /\ ~Undecided(e)
               /\ PointerMove(e, FALSE, d) )
             => LET ok == _onPointerMove(World(d), e, TRUE)
                IN  /\ SwipeMachine'.state = "SWIPING"
                    /\ timeouts' = {}
                    /\ "touchmove" \notin listeners'
                    /\ "IS_SWIPING" \in classList'[SwipeMachine.card]
                    /\ bodyActive'
                    /\ capture' = capture
                    /\ SwipeMachine' = ok.sm /\ listeners' = ok.listeners
                    /\ classList' = ok.classList /\ timeouts' = ok.timeouts
                    /\ frames' = ok.frames /\ bodyActive' = ok.bodyActive ]_vars
    /\ [][ (SwipeMachine.state = "SWIPING" /\ SwipeMachine'.state = "SWIPING")
           => \A p \in PointerIds : capture'[p] \in {capture[p], NULL} ]_vars

\* A swipe was confirmed by a move whose capture failed: SWIPING, with the
\* timer cancelled and no pointer captured.
C14_SwipingWithoutCapture ==
    /\ lastEvent = "pointermove"
    /\ SwipeMachine.state = "SWIPING"
    /\ "IS_SWIPING" \in classList[SwipeMachine.card]
    /\ timeouts = {} /\ frames = {} /\ SwipeMachine.rafId = 0
    /\ \A p \in PointerIds : capture[p] = NULL

C16_PointerOnlyInSession ==
    /\ SwipeMachine.pointerId # NoPointer => InSession
    /\ (\E p \in PointerIds : capture[p] # NULL) => InSession
    /\ SwipeMachine.state = "IDLE" =>
          /\ SwipeMachine.pointerId = NoPointer
          /\ \A p \in PointerIds : capture[p] = NULL

\* C17: when the long-press timer fires in DETECTING and the capture is
\* acquired, startDragSession receives the session's row, content wrapper
\* and pointerdown event, the phase becomes IDLE and the listeners are
\* detached, and the row's pressing class and the content wrapper's
\* transform are as they were when the timer fired.
C17_HandoffKeepsVisuals ==
    [][ \A h \in timeouts, d \in BOOLEAN :
          ( /\ lastEvent' = "longpress"
            /\ SwipeMachine.state = "DETECTING"
            /\ LongPressFire(h, TRUE, d) )
          => /\ handoffs' = 1
             /\ dragSession' = [active |-> TRUE, card |-> SwipeMachine.card,
                                content |-> SwipeMachine.content,
                                event |-> SwipeMachine.initialEvent]
             /\ SwipeMachine'.state = "IDLE"
             /\ listeners' = {}
             /\ ("is-pressing" \in classList'[SwipeMachine.card])
                  <=> ("is-pressing" \in classList[SwipeMachine.card])
             /\ transform'[SwipeMachine.content] = transform[SwipeMachine.content] ]_vars

\* The touch sample e lies within the hold tolerance of the touch origin:
\* straight-line distance below 15 px (compared squared).
WithinTolerance(e) ==
    /\ e.hasTouch
    /\ (e.clientX - SubPixel * SwipeMachine.startX)
           * (e.clientX - SubPixel * SwipeMachine.startX)
         + (e.clientY - SubPixel * SwipeMachine.startY)
           * (e.clientY - SubPixel * SwipeMachine.startY)
       < (SubPixel * HOLD_TOLERANCE_PX) * (SubPixel * HOLD_TOLERANCE_PX)

VerticalExit(e) ==
    LET dx == e.clientX - SubPixel * SwipeMachine.startX
        dy == e.clientY - SubPixel * SwipeMachine.startY
    IN  /\ e.hasTouch
        /\ dx * dx + dy * dy
             > (SubPixel * HOLD_TOLERANCE_PX) * (SubPixel * HOLD_TOLERANCE_PX)
        /\ Abs(dy) > Abs(dx)

\* C19: every touch-move sample handled in DETECTING that is beyond the
\* tolerance and vertical-dominant cancels the pending long-press timer in
\* that same sample: the timeout is cleared and longPressTimer is 0 after.
C19_VerticalExitCancelsTimer ==
    [][ \A e \in TouchEvents :
          ( /\ TouchMove(e)
            /\ SwipeMachine.state = "DETECTING"
            /\ SwipeMachine.longPressTimer # 0
            /\ VerticalExit(e) )
          => /\ SwipeMachine'.longPressTimer = 0
             /\ SwipeMachine.longPressTimer \notin timeouts' ]_vars

\* The row classes that finalizing the action for the current delta and
\* then resetting would leave.
FinalizedThenReset ==
    _forceReset(_finalizeAction(World(FALSE),
                                SwipeMachine.currentX - SwipeMachine.startX)).classList

\* C20: from SWIPING, each of pointerup, pointercancel, window blur and a
\* pointer move that finds an externally started drag session ends in IDLE
\* with the rows as finalizing the action for the current delta and then
\* resetting leaves them.
C20_SwipeEndFinalizes ==
    [][ ( /\ SwipeMachine.state = "SWIPING"
          /\ \/ lastEvent' \in {"pointerup", "pointercancel", "blur"}
             \/ lastEvent' = "pointermove" /\ dragSession.active )
        => /\ SwipeMachine'.state = "IDLE"
           /\ classList' = FinalizedThenReset ]_vars

\* The frame rendered last in this swipe was pinned at the limit: the
\* transform it wrote is at least actionWidth (no frame yet: not pinned).
RenderedAtLimit(t, sm) ==
    /\ t # << >>
    /\ Abs(t[1]) >= RESISTANCE_DIV * sm.actionWidth

\* C21: a frame that enters the limit regime (|delta| >= actionWidth) from
\* outside it emits exactly one 'heavy' pulse and starts the one repeating
\* pulse timer; a frame that stays in the regime emits nothing and leaves
\* that timer as it is; a frame rendered below the limit, and every pointerup
\* and every reset, leaves no pulse timer running.  At no time is there more
\* than one pulse timer, and it runs only in SWIPING.
C21_LimitPulse ==
    /\ [][ ( /\ lastEvent' = "frame"
             /\ SwipeMachine.state = "SWIPING"
             /\ SwipeMachine.content # NULL )
           => LET before == RenderedAtLimit(transform[SwipeMachine.content], SwipeMachine)
                  after == RenderedAtLimit(transform'[SwipeMachine.content], SwipeMachine)
              IN  /\ after = (Abs(FrameDelta(SwipeMachine)) >= SwipeMachine.actionWidth)
                  /\ (~before /\ after)
                       => /\ haptics' = << "heavy" >>
                          /\ intervals = {}
                          /\ Cardinality(intervals') = 1
                          /\ intervals' = {SwipeMachine'.limitVibrationTimer}
                  /\ (before /\ after)
                       => /\ haptics' = << >>
                          /\ intervals' = intervals
                          /\ Cardinality(intervals') = 1
                  /\ ~after
                       => /\ intervals' = {}
                          /\ SwipeMachine'.limitVibrationTimer = 0 ]_vars
    /\ [][ ( \/ lastEvent' \in {"pointerup", "pointercancel", "blur"}
             \/ SwipeMachine'.state # "SWIPING" )
           => /\ intervals' = {}
              /\ SwipeMachine'.limitVibrationTimer = 0 ]_vars
    /\ [](Cardinality(intervals) <= 1)

\* A frame has been rendered at the limit while the pulse timer started by
\* an earlier frame was running: the regime persisted.
C21_StillPinned ==
    /\ lastEvent = "frame"
    /\ SwipeMachine.state = "SWIPING"
    /\ RenderedAtLimit(transform[SwipeMachine.content], SwipeMachine)
    /\ haptics = << >>
    /\ intervals = {SwipeMachine.limitVibrationTimer}

\* C22: at most one animation-frame request of the renderer is pending, and
\* it is the one the session holds; a step makes a request only when none
\* was pending and the phase was SWIPING (it is a pointer move of a swipe).
C22_FrameCoalescing ==
    /\ [](/\ Cardinality(frames) <= 1
          /\ frames = {SwipeMachine.rafId} \ {0})
    /\ [][ frames' \ frames # {}
           => /\ frames = {}
              /\ SwipeMachine.state = "SWIPING"
              /\ SwipeMachine'.state = "SWIPING"
              /\ lastEvent' = "pointermove" ]_vars
    /\ [][ ( /\ lastEvent' = "pointermove"
             /\ SwipeMachine.state = "SWIPING"
             /\ frames # {} )
           => frames' = frames \/ SwipeMachine'.state = "IDLE" ]_vars

\* A pointer move of a swipe has left one frame request pending.
C22_OneFramePending ==
    /\ lastEvent = "pointermove"
    /\ SwipeMachine.state = "SWIPING"
    /\ frames = {SwipeMachine.rafId}
    /\ SwipeMachine.rafId # 0

\* C23: a pointerup in SWIPING installs one click suppressor, with its
\* timeout, exactly when |currentX - startX| exceeds the action threshold,
\* and no other step installs one; a click that finds a suppressor attached
\* is stopped unless its target is an action button, and leaves none
\* attached, so the click after it is not stopped; a click that finds none
\* is not stopped; an attached suppressor always has its timeout pending,
\* whose expiry detaches it.
C23_ClickSuppression ==
    /\ [][ lastEvent' = "pointerup"
           => LET dx == SwipeMachine.currentX - SwipeMachine.startX
              IN  IF SwipeMachine.state = "SWIPING" /\ Abs(dx) > ACTION_THRESHOLD
                  THEN /\ clickBlockers' = clickBlockers + 1
                       /\ clickTimers' = clickTimers + 1
                  ELSE /\ clickBlockers' = clickBlockers
                       /\ clickTimers' = clickTimers ]_vars
    /\ [][ clickBlockers' > clickBlockers => lastEvent' = "pointerup" ]_vars
    /\ [][ \A b \in BOOLEAN :
             Click(b) => /\ clickStopped' = (clickBlockers > 0 /\ ~b)
                         /\ clickBlockers' = 0 ]_vars
    /\ [](clickBlockers <= clickTimers)
    /\ [][ lastEvent' = "clicktimer"
           => /\ clickTimers' = clickTimers - 1
              /\ clickBlockers' <= clickTimers' ]_vars
    /\ [](clickStopped => lastEvent = "click")

\* The click that followed a swipe past the threshold has been stopped while
\* the suppressor's timeout is still pending, and the suppressor is gone.
C23_ClickStopped ==
    /\ lastEvent = "click"
    /\ clickStopped
    /\ clickBlockers = 0
    /\ clickTimers > 0

\* C24: during a session wasOpenLeft / wasOpenRight say which panel of the
\* row was open at pointerdown; a pointerup in SWIPING on a row that was
\* open-left leaves it open-left unless the final delta d = currentX - startX
\* is below -T, when it closes it; on a row that was open-right it leaves it
\* open-right unless d > T, when it closes it; in neither case does the row
\* end with the opposite panel open.
C24_ClosingOpenPanel ==
    /\ [](SwipeMachine.state \in {"DETECTING", "SWIPING"}
            => /\ SwipeMachine.wasOpenLeft
                    = ("IS_OPEN_LEFT" \in classList[SwipeMachine.card])
               /\ SwipeMachine.wasOpenRight
                    = ("IS_OPEN_RIGHT" \in classList[SwipeMachine.card]))
    /\ [][ (lastEvent' = "pointerup" /\ SwipeMachine.state = "SWIPING")
           => LET d == SwipeMachine.currentX - SwipeMachine.startX
                  after == classList'[SwipeMachine.card]
              IN  /\ SwipeMachine.wasOpenLeft
                       => /\ ("IS_OPEN_LEFT" \in after) = ~(d < -ACTION_THRESHOLD)
                          /\ "IS_OPEN_RIGHT" \notin after
                  /\ SwipeMachine.wasOpenRight
                       => /\ ("IS_OPEN_RIGHT" \in after) = ~(d > ACTION_THRESHOLD)
                          /\ "IS_OPEN_LEFT" \notin after ]_vars

\* A swipe on a row that was open-left has ended beyond the threshold in
\* the closing direction, and the row is closed.
C24_OpenLeftClosed ==
    /\ lastEvent = "pointerup"
    /\ SwipeMachine.wasOpenLeft
    /\ SwipeMachine.currentX - SwipeMachine.startX < -ACTION_THRESHOLD
    /\ clickBlockers > 0
    /\ \A r \in Rows : ~IsOpen(r)

\* The world as it is, with the phase set to LOCKED_OUT.
LockedOut(habitListStructure) ==
    [World(habitListStructure) EXCEPT !.sm.state = "LOCKED_OUT"]

\* C25: the phase is never LOCKED_OUT, whatever pointerdown, move, up,
\* cancel, blur, touch-move, timer and frame events have been handled; and
\* the pointer-move handler run in LOCKED_OUT, as in IDLE, leaves every
\* session field (and everything else) as it was, for every move event.
C25_LockedOutInert ==
    /\ [](SwipeMachine.state \in {"IDLE", "DETECTING", "SWIPING"})
    /\ [](\A e \in MoveEvents, ok \in BOOLEAN, d \in BOOLEAN :
            _onPointerMove(LockedOut(d), e, ok) = LockedOut(d))
    /\ [](SwipeMachine.state = "IDLE"
            => \A e \in MoveEvents, ok \in BOOLEAN, d \in BOOLEAN :
                 _onPointerMove(World(d), e, ok) = World(d))

\* A second gesture is rendering a frame after a first one opened a row:
\* every kind of event has been handled, and the phase is a live one.
C25_EveryEventHandled ==
    /\ lastEvent = "frame"
    /\ SwipeMachine.state = "SWIPING"
    /\ clickTimers > 0
    /\ \E r \in Rows : IsOpen(r)
    /\ SwipeMachine.currentX # SwipeMachine.startX

\* The whole-pixel coordinate c is the event coordinate v (in units of
\* 1 / SubPixel px, not negative) with its fraction dropped.
FractionDropped(c, v) ==
    /\ SubPixel * c <= v
    /\ v < SubPixel * (c + 1)

\* What an armed session is after the pointerdown event e.
Armed(e) ==
    /\ SwipeMachine'.state = "DETECTING"
    /\ SwipeMachine'.card = e.target
    /\ SwipeMachine'.content = e.target
    /\ SwipeMachine'.initialEvent = << e >>
    /\ SwipeMachine'.pointerId = e.pointerId
    /\ SwipeMachine'.lastFeedbackStep = 0
    /\ SwipeMachine'.longPressTimer # 0
    /\ timeouts' = {SwipeMachine'.longPressTimer}
    /\ listeners' = {"touchmove", "pointermove", "pointerup", "pointercancel", "blur"}

\* What the engine is after a pointerdown that armed nothing.
NotArmed ==
    /\ SwipeMachine'.state = "IDLE"
    /\ timeouts' = {}
    /\ listeners' = {}

\* C26 as stated: a pointerdown with the primary button, no active drag and
\* a target inside a row arms a session whose origin and last coordinates
\* equal the event's coordinates; every pointerdown whose target is not
\* inside a row leaves the phase IDLE, no timer pending and no listener
\* attached.
C26_PointerDownArmsExactly ==
    [][ lastEvent' = "pointerdown" =>
        \A e \in DownEvents, d \in BOOLEAN :
          PointerDown(e, d)
          => /\ (e.button = 0 /\ ~dragSession.active /\ e.target # NULL)
                  => /\ Armed(e)
                     /\ SubPixel * SwipeMachine'.startX = e.clientX
                     /\ SubPixel * SwipeMachine'.currentX = e.clientX
                     /\ SubPixel * SwipeMachine'.startY = e.clientY
                     /\ SubPixel * SwipeMachine'.currentY = e.clientY
             /\ e.target = NULL => NotArmed ]_vars

\* C26 as amended: a pointerdown with the primary button, no active drag
\* and a target inside a row arms a session whose origin and last
\* coordinates are the event's coordinates with the fraction dropped; a
\* pointerdown with the primary button and no active drag whose target is
\* not inside a row leaves the phase IDLE, no timer pending and no listener
\* attached.
C26_AcceptedPointerDownArms ==
    [][ lastEvent' = "pointerdown" =>
        \A e \in DownEvents, d \in BOOLEAN :
          (e.button = 0 /\ ~dragSession.active /\ PointerDown(e, d))
          => /\ e.target # NULL
                  => /\ Armed(e)
                     /\ SwipeMachine'.currentX = SwipeMachine'.startX
                     /\ SwipeMachine'.currentY = SwipeMachine'.startY
                     /\ FractionDropped(SwipeMachine'.startX, e.clientX)
                     /\ FractionDropped(SwipeMachine'.startY, e.clientY)
             /\ e.target = NULL => NotArmed ]_vars

\* A session has just been armed by a pointerdown at a fractional x, on a
\* row that the previous gesture opened.
C26_ArmedAtFraction ==
    /\ lastEvent = "pointerdown"
    /\ SwipeMachine.state = "DETECTING"
    /\ SwipeMachine.initialEvent[1].clientX # SubPixel * SwipeMachine.startX
    /\ SwipeMachine.longPressTimer \in timeouts
    /\ "touchmove" \in listeners
    /\ clickBlockers > 0

\* C27: a reset that runs while the phase is IDLE (that of an accepted
\* pointerdown outside every row) changes no session field, emits no
\* haptic, releases no pointer capture and schedules or cancels no work;
\* only classes and listeners may be removed.
C27_IdleResetNoOp ==
    [][ ( /\ lastEvent' = "pointerdown"
          /\ SwipeMachine.state = "IDLE"
          /\ \E e \in DownEvents, d \in BOOLEAN :
               /\ e.button = 0 /\ e.target = NULL /\ ~dragSession.active
               /\ PointerDown(e, d) )
        => /\ SwipeMachine' = SwipeMachine
           /\ haptics' = << >>
           /\ capture' = capture
           /\ rerenders' = 0
           /\ timeouts' = timeouts /\ intervals' = intervals /\ frames' = frames
           /\ transform' = transform /\ bodyActive' = bodyActive ]_vars

\* The re-render requests a reset makes when it finds the flag at d.
RerendersWanted(d) == IF d /\ ~dragSession.active THEN 1 ELSE 0

\* No handler of the engine writes the structural-invalidation flag: each
\* returns it as it found it.
FlagUntouched ==
    \A d \in BOOLEAN :
      /\ _forceReset(World(d)).dirty = d
      /\ _onPointerUp(World(d)).dirty = d
      /\ _renderFrame(World(d)).dirty = d
      /\ \A ok \in BOOLEAN : _triggerDrag(World(d), ok).dirty = d
      /\ \A e \in DownEvents : onPointerDown(World(d), e).dirty = d
      /\ \A e \in MoveEvents, ok \in CaptureOutcomes :
           _onPointerMove(World(d), e, ok).dirty = d
      /\ \A e \in TouchEvents : _activeTouchGuard(World(d), e).dirty = d

\* C28: a full reset requests a re-render on the next frame exactly when it
\* finds the structural-invalidation flag set and no drag session active
\* (of the reset run in any reachable state, and of every blur,
\* pointercancel, pointerup and accepted pointerdown step); no step requests
\* one otherwise; no handler writes the flag; and renderApp is never called
\* while a drag session is active.
C28_RerenderOnlyWithoutDrag ==
    /\ [](\A d \in BOOLEAN :
            _forceReset(World(d)).rerenders = RerendersWanted(d))
    /\ [][ \A d \in BOOLEAN :
             /\ Blur(d) => rerenders' = RerendersWanted(d)
             /\ \A p \in PointerIds :
                  /\ PointerCancel(p, d) => rerenders' = RerendersWanted(d)
                  /\ PointerUp(p, d) => rerenders' = RerendersWanted(d)
             /\ lastEvent' = "pointerdown"
                  => \A e \in DownEvents :
                       (e.button = 0 /\ PointerDown(e, d))
                       => rerenders' = RerendersWanted(d) ]_vars
    /\ [][ /\ rerenders' \in {0, 1}
           /\ rerenders' = 1 => (~dragSession.active /\ renderQueued')
           /\ (renderQueued' /\ ~renderQueued) => rerenders' = 1 ]_vars
    /\ []FlagUntouched
    /\ [][ lastEvent' = "render" => ~dragSession.active ]_vars

\* C29: every pointer move handled during a swipe records its coordinates,
\* whether it requests a frame or finds one pending; no other step of the
\* swipe changes them; and the frame renders the translation of the
\* coordinates recorded when it runs.  So the frame renders the most recent
\* move, not the move that requested it.
C29_FrameRendersLatestMove ==
    /\ [][ ( /\ lastEvent' = "pointermove"
             /\ SwipeMachine.state = "SWIPING"
             /\ ~dragSession.active )
           => \A e \in MoveEvents :
                PointerMove(e, TRUE, FALSE)
                => /\ SwipeMachine'.currentX = ToInt32(e.clientX)
                   /\ SwipeMachine'.currentY = ToInt32(e.clientY)
                   /\ frames # {} => frames' = frames ]_vars
    /\ [][ ( /\ SwipeMachine.state = "SWIPING"
             /\ SwipeMachine'.state = "SWIPING"
             /\ lastEvent' # "pointermove" )
           => /\ SwipeMachine'.currentX = SwipeMachine.currentX
              /\ SwipeMachine'.startX = SwipeMachine.startX
              /\ SwipeMachine'.wasOpenLeft = SwipeMachine.wasOpenLeft
              /\ SwipeMachine'.wasOpenRight = SwipeMachine.wasOpenRight ]_vars
    /\ [][ ( /\ lastEvent' = "frame"
             /\ SwipeMachine.state = "SWIPING"
             /\ SwipeMachine.content # NULL )
           => transform'[SwipeMachine.content]
                = << VisualX(FrameDelta(SwipeMachine), SwipeMachine.actionWidth) >> ]_vars

\* A move has arrived while a frame was pending and after an earlier frame
\* rendered another position: the pending frame will render the new one.
C29_MovedWhileFramePending ==
    /\ lastEvent = "pointermove"
    /\ SwipeMachine.state = "SWIPING"
    /\ frames # {}
    /\ transform[SwipeMachine.content] # << >>
    /\ transform[SwipeMachine.content]
         # << VisualX(FrameDelta(SwipeMachine), SwipeMachine.actionWidth) >>

\* The delta of the claim: the displacement from the origin, shifted by
\* +actionWidth when the session's row is open-left (as it was at
\* pointerdown), by -actionWidth when it is open-right.
RevealDelta ==
    LET raw == SwipeMachine.currentX - SwipeMachine.startX
        classes == classList[SwipeMachine.card]
    IN  IF "IS_OPEN_LEFT" \in classes THEN raw + SwipeMachine.actionWidth
        ELSE IF "IS_OPEN_RIGHT" \in classes THEN raw - SwipeMachine.actionWidth
        ELSE raw

\* C30: every frame of a swipe writes the horizontal translation of the
\* delta taken from the reveal baseline, and nothing else: the transform is
\* that single x value whatever the pointer's y; a row is never open on both
\* sides, so the baseline is well defined.
C30_RevealBaseline ==
    /\ [][ ( /\ lastEvent' = "frame"
             /\ SwipeMachine.state = "SWIPING"
             /\ SwipeMachine.content # NULL )
           => transform'[SwipeMachine.content]
                = << VisualX(RevealDelta, SwipeMachine.actionWidth) >> ]_vars
    /\ [](\A r \in Rows :
            /\ Len(transform[r]) <= 1
            /\ ~({"IS_OPEN_LEFT", "IS_OPEN_RIGHT"} \subseteq classList[r]))

\* A frame of a swipe on a row that was open-left has rendered from the
\* shifted baseline while the pointer was off the origin's y.
C30_RenderedFromBaseline ==
    /\ lastEvent = "frame"
    /\ SwipeMachine.state = "SWIPING"
    /\ "IS_OPEN_LEFT" \in classList[SwipeMachine.card]
    /\ SwipeMachine.currentY # SwipeMachine.startY
    /\ transform[SwipeMachine.content]
         = << VisualX(SwipeMachine.currentX - SwipeMachine.startX
                        + SwipeMachine.actionWidth, SwipeMachine.actionWidth) >>

\* The four window listeners that live as long as the session does.
SessionListeners == {"pointermove", "pointerup", "pointercancel", "blur"}

\* C31: in every reachable state the window pointermove, pointerup,
\* pointercancel and blur listeners are attached exactly when the phase is
\* DETECTING or SWIPING, and the touch-move guard is attached exactly when
\* the phase is DETECTING; hence no exit leaves a listener attached in IDLE.
C31_ListenerLifecycle ==
    /\ \A l \in SessionListeners : (l \in listeners) <=> InSession
    /\ ("touchmove" \in listeners) <=> (SwipeMachine.state = "DETECTING")
    /\ listeners \subseteq WindowListeners

\* A swipe was confirmed: the guard is gone, the other four listeners stay.
C31_GuardDetachedInSwipe ==
    /\ SwipeMachine.state = "SWIPING"
    /\ listeners = SessionListeners
    /\ lastEvent = "pointermove"

\* The touch guard has cancelled the long press of the running session.
GuardCancelled ==
    SwipeMachine.state = "DETECTING" /\ SwipeMachine.longPressTimer = 0

C33_NoStaleHandoff ==
    /\ [][ handoffs' > handoffs =>
             /\ lastEvent' = "longpress"
             /\ SwipeMachine.state = "DETECTING"
             /\ timeouts = {SwipeMachine.longPressTimer}
             /\ handoffs' = handoffs + 1
             /\ dragSession'.card = SwipeMachine.card
             /\ dragSession'.content = SwipeMachine.content
             /\ dragSession'.event = SwipeMachine.initialEvent
             /\ SwipeMachine.initialEvent # << >> ]_vars
    /\ [](timeouts # {} =>
             /\ SwipeMachine.state = "DETECTING"
             /\ timeouts = {SwipeMachine.longPressTimer})
    /\ [][ (SwipeMachine.state = "DETECTING" /\ SwipeMachine'.state # "DETECTING")
             => timeouts' = {} ]_vars

\* A swipe is running: the long press of its session was cancelled when the
\* phase left DETECTING, only the stale handle is left in the record.
C33_TimerCancelledBySwipe ==
    /\ SwipeMachine.state = "SWIPING"
    /\ SwipeMachine.longPressTimer # 0
    /\ timeouts = {}

\* The open-panel classes among a row's classes.
OpenClasses(classes) == classes \cap {"IS_OPEN_LEFT", "IS_OPEN_RIGHT"}

\* C34: a step changes the open-left / open-right classes of a row only if
\* it is a pointerup in SWIPING, and the row is the session's, or an accepted
\* pointerdown, and the row is another one than the pressed row and ends
\* closed; a pointerup in DETECTING, a pointercancel, a blur, a reset by drag
\* detection, the long-press hand-off and every pointer move and frame leave
\* these classes of every row as they were.
C34_OpenStateFrame ==
    [][ \A r \in Rows :
          OpenClasses(classList'[r]) # OpenClasses(classList[r]) =>
             \/ /\ lastEvent' = "pointerup"
                /\ SwipeMachine.state = "SWIPING"
                /\ r = SwipeMachine.card
             \/ /\ lastEvent' = "pointerdown"
                /\ SwipeMachine'.state = "DETECTING"
                /\ r # SwipeMachine'.card
                /\ OpenClasses(classList'[r]) = {} ]_vars

\* A pointercancel ended the gesture on a row revealed to the left after the
\* pointer had moved beyond the threshold towards closing: the row is open.
C34_CancelLeftRowOpen ==
    /\ lastEvent = "pointercancel"
    /\ SwipeMachine.wasOpenLeft
    /\ SwipeMachine.currentX - SwipeMachine.startX < -ACTION_THRESHOLD
    /\ \E r \in Rows : "IS_OPEN_LEFT" \in classList[r]

\* C35: a pointerdown whose button is not the primary one, or that arrives
\* while a drag session is active, changes nothing: the phase and every
\* session field, the pending timers and frames, the attached listeners, the
\* rows' classes and transforms, the captures and the collaborators' state
\* are as before, and nothing is emitted, whatever the phase.
C35_IgnoredPointerDown ==
    [][ ( /\ lastEvent' = "pointerdown"
          /\ \/ dragSession.active
             \/ \E e \in DownEvents : e.button # 0 /\ PointerDown(e, FALSE) )
        => /\ UNCHANGED << SwipeMachine, listeners, classList, bodyActive, transform,
                           capture, dragSession, handoffs, timeouts, intervals, frames,
                           renderQueued, clickBlockers, clickTimers >>
           /\ haptics' = << >>
           /\ rerenders' = 0
           /\ closedRows' = {} ]_vars

\* A pointerdown was dispatched during a swipe and the swipe goes on.
C35_IgnoredDuringSwipe ==
    /\ lastEvent = "pointerdown"
    /\ SwipeMachine.state = "SWIPING"
    /\ listeners = SessionListeners

\* C36: in every reachable state a running limit-pulse interval or a pending
\* renderer frame, and a non-zero limitVibrationTimer or rafId handle, imply
\* phase SWIPING, so neither is left in IDLE or DETECTING; the running
\* interval and the pending frame are the ones the record holds, so there is
\* at most one of each.
C36_HandlesConfinedToSwiping ==
    /\ ( \/ intervals # {} \/ frames # {}
         \/ SwipeMachine.limitVibrationTimer # 0 \/ SwipeMachine.rafId # 0 )
       => SwipeMachine.state = "SWIPING"
    /\ intervals = {SwipeMachine.limitVibrationTimer} \ {0}
    /\ frames = {SwipeMachine.rafId} \ {0}
    /\ Cardinality(intervals) <= 1

\* During a swipe the limit pulse is running and a frame is pending.
C36_PulseAndFramePending ==
    /\ SwipeMachine.state = "SWIPING"
    /\ intervals # {}
    /\ frames # {}

\* C37: in every reachable state document.body carries
\* 'is-interaction-active' exactly when the phase is SWIPING; a row carries
\* the swiping class exactly when the phase is SWIPING and it is the
\* session's row; and a row carries 'is-charging' only when the phase is
\* DETECTING, it is the session's row and the long-press timer is pending.
C37_VisualFlagsTrackPhase ==
    /\ bodyActive <=> (SwipeMachine.state = "SWIPING")
    /\ \A r \in Rows :
          ("IS_SWIPING" \in classList[r]) <=>
             (SwipeMachine.state = "SWIPING" /\ r = SwipeMachine.card)
    /\ \A r \in Rows :
          ("is-charging" \in classList[r]) =>
             /\ SwipeMachine.state = "DETECTING"
             /\ r = SwipeMachine.card
             /\ SwipeMachine.longPressTimer # 0
             /\ SwipeMachine.longPressTimer \in timeouts

\* The guard has cancelled the long press: the row is still pressed but no
\* row shows the charging feedback.
C37_ChargingGoneAfterCancel ==
    /\ GuardCancelled
    /\ "is-pressing" \in classList[SwipeMachine.card]
    /\ \A r \in Rows : "is-charging" \notin classList[r]

\* C38: a translation is on a content wrapper only while its session is in
\* SWIPING; it is written only by a frame that runs in SWIPING, on the
\* session's wrapper; every step that leaves SWIPING cancels the pending
\* frame and leaves every transform cleared, and _renderFrame run outside
\* SWIPING or without a content wrapper writes none, so no frame of a session
\* that was reset writes anything and the transform stays cleared until a
\* later session reaches SWIPING.
C38_NoTransformAfterReset ==
    /\ [](\A r \in Rows :
            transform[r] # << >> =>
               SwipeMachine.state = "SWIPING" /\ r = SwipeMachine.content)
    /\ [][ \A r \in Rows :
             (transform'[r] # transform[r] /\ transform'[r] # << >>) =>
                /\ lastEvent' = "frame"
                /\ SwipeMachine.state = "SWIPING"
                /\ SwipeMachine'.state = "SWIPING"
                /\ r = SwipeMachine.content
                /\ SwipeMachine'.content = SwipeMachine.content ]_vars
    /\ [][ (SwipeMachine.state = "SWIPING" /\ SwipeMachine'.state # "SWIPING") =>
             /\ frames' = {}
             /\ SwipeMachine'.rafId = 0
             /\ \A r \in Rows : transform'[r] = << >> ]_vars
    /\ []( (SwipeMachine.state # "SWIPING" \/ SwipeMachine.content = NULL) =>
             _renderFrame(World(FALSE)).transform = transform )

\* A window blur reset a swipe of which at least one frame had been rendered
\* (the haptic step it recorded is still in the record): nothing is
\* translated and no frame is pending.
C38_ClearedAfterRenderedSwipe ==
    /\ lastEvent = "blur"
    /\ SwipeMachine.state = "IDLE"
    /\ SwipeMachine.lastFeedbackStep # 0
    /\ frames = {}
    /\ \A r \in Rows : transform[r] = << >>
====
